---- MODULE Spec2Model ----
(***************************************************************************)
(* Change tracking of pydantic_changedetect.ChangeDetectionMixin.          *)
(*                                                                         *)
(* The state is a heap of model instances.  Every instance carries its    *)
(* pydantic __dict__ (field name -> value) and the three slots of the     *)
(* mixin: model_original, model_self_changed_fields, model_changed_markers.*)
(* Values are tagged records; a value of kind "ref" is a reference to a   *)
(* heap object, so two fields (or a field and an entry of model_original) *)
(* can alias the same instance, as they do in Python.                     *)
(***************************************************************************)
EXTENDS Integers, Sequences, FiniteSets, TLC

VARIABLES
    heap,       \* sequence of instances; the index of an instance is its identity
    last,       \* the most recently completed call: what it was and what it saw
    baseline,   \* history: what each instance held when it was last reset
                \* (kept where restoring is checked, empty elsewhere)
    clones,     \* history: the copies taken, each with its source and its
                \* clone (kept where copying is checked, empty elsewhere)
    blobs,      \* the pickles the callers hold (where pickling is checked,
                \* empty elsewhere)
    argument    \* the input a helper function is applied to (where a
                \* helper is checked on its own, None elsewhere)

vars == <<heap, last, baseline, clones, blobs, argument>>

---------------------------------------------------------------------------
(* Bounds of the exploration *)

MaxObjs == 2        \* instances that are ever constructed
MaxInt == 2         \* integer field values are drawn from 1..MaxInt

---------------------------------------------------------------------------
(* Python values *)

None == [k |-> "none"]
IntV(i) == [k |-> "int", n |-> i]
Ref(i) == [k |-> "ref", id |-> i]
StrV(t) == [k |-> "str", s |-> t]
BytesV(t) == [k |-> "bytes", s |-> t]

\* a value of one of the other builtin kinds (float, bool, Decimal, the
\* datetime kinds, ...), told apart from others of its kind by a number
Scalar(kind, n) == [k |-> kind, n |-> n]

\* containers: the elements in order; a dict keeps its insertion order and
\* has values as keys
ListV(items) == [k |-> "list", items |-> items]
TupleV(items) == [k |-> "tuple", items |-> items]
SetV(items) == [k |-> "set", items |-> items]
FrozenSetV(items) == [k |-> "frozenset", items |-> items]
DictV(items) == [k |-> "dict", items |-> items]
Entry(key, val) == [key |-> key, val |-> val]

\* f"{key}" of a dict key
Format(key) ==
    CASE key.k = "str" -> key.s
      [] key.k = "int" -> ToString(key.n)
      [] key.k = "bytes" -> "b'" \o key.s \o "'"
      [] OTHER -> key.k

\* changedetect.py:29, the sentinel for "no original given"
NO_VALUE == [k |-> "NO_VALUE"]

EmptyMap == [x \in {} |-> None]

Put(m, key, v) == [x \in DOMAIN m \cup {key} |-> IF x = key THEN v ELSE m[x]]

Range(s) == {s[i] : i \in DOMAIN s}

---------------------------------------------------------------------------
(* The model classes of the test-suite *)

MixinClasses ==
    {"Something", "SomethingMultipleFields", "Nested",
     "NestedList", "NestedTuple", "NestedDict", "NestedUnsupported",
     "SomethingPrivate", "SomethingValidated"}

\* a pydantic model without the mixin
PlainClasses == {"Unsupported"}

\* cls.model_fields, in declaration order
model_fields(cls) ==
    CASE cls \in {"Something", "SomethingPrivate", "SomethingValidated"} -> <<"id">>
      [] cls = "SomethingMultipleFields" -> <<"id", "foo">>
      [] cls = "Nested" -> <<"sub">>
      [] cls = "Unsupported" -> <<"id">>
      [] cls \in {"NestedList", "NestedTuple", "NestedDict", "NestedUnsupported"} -> <<"sub">>
      [] OTHER -> <<>>

FieldSet(cls) == Range(model_fields(cls))

\* cls.__private_attributes__: SomethingPrivate is Something with
\* _private: Optional[int] = PrivateAttr(None)
private_attributes(cls) == IF cls = "SomethingPrivate" THEN {"_private"} ELSE {}

\* model_config["validate_assignment"]: SomethingValidated is Something with
\* assignments validated, the case __setattr__ reads the value back for
validate_assignment(cls) == cls = "SomethingValidated"

\* model_field.annotation: origin "" is a plain class (get_origin is None)
Ann(origin, name, args) == [origin |-> origin, name |-> name, args |-> args]

annotation(cls, f) ==
    CASE cls \in {"Something", "SomethingPrivate", "SomethingValidated"} /\ f = "id" ->
            Ann("", "int", <<>>)
      [] cls = "SomethingMultipleFields" /\ f = "id" -> Ann("", "int", <<>>)
      [] cls = "SomethingMultipleFields" /\ f = "foo" -> Ann("", "str", <<>>)
      [] cls = "Nested" /\ f = "sub" -> Ann("", "Something", <<>>)
      [] cls = "Unsupported" /\ f = "id" -> Ann("", "int", <<>>)
      [] cls = "NestedList" /\ f = "sub" ->
            Ann("List", "", <<Ann("", "Something", <<>>)>>)
      [] cls = "NestedTuple" /\ f = "sub" ->
            Ann("Tuple", "", <<Ann("", "Something", <<>>), Ann("", "Ellipsis", <<>>)>>)
      [] cls = "NestedDict" /\ f = "sub" ->
            Ann("Dict", "", <<Ann("", "str", <<>>), Ann("", "Something", <<>>)>>)
      [] cls = "NestedUnsupported" /\ f = "sub" ->
            Ann("Union", "", <<Ann("", "Unsupported", <<>>), Ann("", "Something", <<>>)>>)
      [] OTHER -> Ann("", "NoneType", <<>>)
---------------------------------------------------------------------------
(* utils.py: the annotation classifier *)

IsListOrigin(origin) == origin \in {"List", "Set", "Tuple"}

IsDictOrigin(origin) == origin \in {"Dict", "Mapping"}

\* what a call of a helper comes to: the value it returns, or the
\* exception it raises
Returned(b) == [raised |-> "", val |-> b]

Raised(e) == [raised |-> e, val |-> FALSE]

\* utils.py:47-88. get_args(annotation)[0] and [1] raise IndexError when the
\* annotation carries no such argument (a bare typing.List, Tuple[()]), and
\* any(...) stops at the first member that is true or that raises. An
\* origin that is none of the tested ones (FrozenSet, and X | Y whose origin
\* is types.UnionType and not typing.Union) falls through to False.
RECURSIVE is_pydantic_change_detect_annotation_call(_)
RECURSIVE any_annotation(_, _)
is_pydantic_change_detect_annotation_call(a) ==
    IF a.origin = "missing" THEN Returned(FALSE)
    ELSE IF a.origin = "" /\ a.name \in MixinClasses THEN Returned(TRUE)
    ELSE IF IsListOrigin(a.origin)
        THEN IF Len(a.args) < 1 THEN Raised("IndexError")
             ELSE is_pydantic_change_detect_annotation_call(a.args[1])
    ELSE IF IsDictOrigin(a.origin)
        THEN IF Len(a.args) < 2 THEN Raised("IndexError")
             ELSE is_pydantic_change_detect_annotation_call(a.args[2])
    ELSE IF a.origin = "Union"
        THEN any_annotation(a.args, 1)
    ELSE Returned(FALSE)

\* any(is_pydantic_change_detect_annotation(arg) for arg in args), from the
\* i-th argument on
any_annotation(args, i) ==
    IF i > Len(args) THEN Returned(FALSE)
    ELSE LET r == is_pydantic_change_detect_annotation_call(args[i])
         IN  IF r.raised # "" \/ r.val THEN r
             ELSE any_annotation(args, i + 1)

\* the classifier where it returns, as the queries use it on the declared
\* fields of the model classes
is_pydantic_change_detect_annotation(a) ==
    is_pydantic_change_detect_annotation_call(a).val

---------------------------------------------------------------------------
(* What Python does with the values *)

\* isinstance(value, ChangeDetectionMixin)
IsMixinInstance(h, v) == v.k = "ref" /\ h[v.id].cls \in MixinClasses

\* bool(value), as used by "field_value and ..."
Truthy(v) ==
    CASE v.k = "none" -> FALSE
      [] v.k = "int" -> v.n # 0
      [] v.k \in {"list", "tuple", "set", "frozenset", "dict"} -> Len(v.items) > 0
      [] OTHER -> TRUE

\* value1 == value2: numbers by value, containers element-wise, pydantic
\* models by class and field values, anything else by identity
RECURSIVE PyEq(_, _, _)
PyEq(h, a, b) ==
    IF a.k # b.k THEN FALSE
    ELSE CASE a.k = "none" -> TRUE
           [] a.k = "int" -> a.n = b.n
           [] a.k = "ref" ->
                \/ a.id = b.id
                \/ /\ h[a.id].cls = h[b.id].cls
                   /\ DOMAIN h[a.id].dict = DOMAIN h[b.id].dict
                   /\ \A f \in DOMAIN h[a.id].dict :
                        PyEq(h, h[a.id].dict[f], h[b.id].dict[f])
           [] a.k \in {"list", "tuple"} ->
                /\ Len(a.items) = Len(b.items)
                /\ \A i \in DOMAIN a.items : PyEq(h, a.items[i], b.items[i])
           [] a.k \in {"set", "frozenset"} ->
                /\ Len(a.items) = Len(b.items)
                /\ \A i \in DOMAIN a.items : \E j \in DOMAIN b.items :
                        PyEq(h, a.items[i], b.items[j])
           [] a.k = "dict" ->
                /\ Len(a.items) = Len(b.items)
                /\ \A i \in DOMAIN a.items : \E j \in DOMAIN b.items :
                        /\ a.items[i].key = b.items[j].key
                        /\ PyEq(h, a.items[i].val, b.items[j].val)
           [] OTHER -> a = b

---------------------------------------------------------------------------
(* changedetect.py: the comparable policy *)

\* the kinds of COMPARABLE_TYPES; "ref" is an instance of a pydantic model,
\* with the mixin or without
COMPARABLE_TYPES ==
    {"str", "int", "float", "bool", "decimal",
     "datetime", "date", "time", "timedelta", "ref"}

\* isinstance(value, COMPARABLE_TYPES)
IsComparableScalar(v) == v.k \in COMPARABLE_TYPES

\* a policy that looks at the container itself and not into it
model_value_is_comparable_type_Shallow(v) ==
    v.k \in {"none", "list", "set", "tuple", "dict"} \/ IsComparableScalar(v)

RECURSIVE model_value_is_comparable_type(_)
model_value_is_comparable_type(v) ==
    IF v.k \in {"list", "set", "tuple"}
        THEN \A i \in DOMAIN v.items : model_value_is_comparable_type(v.items[i])
    ELSE IF v.k = "dict"
        THEN \A i \in DOMAIN v.items :
                /\ model_value_is_comparable_type(v.items[i].key)
                /\ model_value_is_comparable_type(v.items[i].val)
    ELSE v.k = "none" \/ IsComparableScalar(v)

model_value_is_actually_unchanged(h, value1, value2) == PyEq(h, value1, value2)

---------------------------------------------------------------------------
(* changedetect.py: the aggregated queries *)

\* the values a list, tuple or dict field is scanned for
InnerValues(v) ==
    IF v.k \in {"list", "tuple"} THEN v.items
    ELSE IF v.k = "dict" THEN [i \in DOMAIN v.items |-> v.items[i].val]
    ELSE <<>>

\* the enumeration counted from one instead of zero
InnerIndexed_FromOne(v) ==
    IF v.k \in {"list", "tuple"}
        THEN [i \in DOMAIN v.items |-> [index |-> ToString(i), val |-> v.items[i]]]
    ELSE IF v.k = "dict"
        THEN [i \in DOMAIN v.items |-> [index |-> Format(v.items[i].key), val |-> v.items[i].val]]
    ELSE <<>>

\* the same with the path segment of each: the index, or the key
InnerIndexed(v) ==
    IF v.k \in {"list", "tuple"}
        THEN [i \in DOMAIN v.items |-> [index |-> ToString(i - 1), val |-> v.items[i]]]
    ELSE IF v.k = "dict"
        THEN [i \in DOMAIN v.items |-> [index |-> Format(v.items[i].key), val |-> v.items[i].val]]
    ELSE <<>>

RECURSIVE model_has_changed(_, _)
RECURSIVE model_changed_fields(_, _)

\* model_has_changed without the test of model_changed_markers
model_has_changed_IgnoresMarkers(h, o) ==
    IF h[o].model_self_changed_fields # {}
    THEN TRUE
    ELSE model_changed_fields(h, o) # {}

\* model_changed_fields that scans every list, tuple or dict, whatever the
\* annotation of the field
model_changed_fields_AnyAnnotation(h, o) ==
    LET self == h[o]
        nested(f) ==
            /\ f \in DOMAIN self.dict
            /\ LET field_value == self.dict[f] IN
                 \/ IsMixinInstance(h, field_value) /\ model_has_changed(h, field_value.id)
                 \/ \E i \in DOMAIN InnerValues(field_value) :
                        LET inner == InnerValues(field_value)[i] IN
                            /\ IsMixinInstance(h, inner)
                            /\ model_has_changed(h, inner.id)
    IN  self.model_self_changed_fields \cup {f \in FieldSet(self.cls) : nested(f)}

\* model_changed_fields that asks the annotation before it looks at any
\* value, an instance held directly included
model_changed_fields_ByAnnotation(h, o) ==
    LET self == h[o]
        nested(f) ==
            /\ f \in DOMAIN self.dict
            /\ is_pydantic_change_detect_annotation(annotation(self.cls, f))
            /\ LET field_value == self.dict[f] IN
                 \/ IsMixinInstance(h, field_value) /\ model_has_changed(h, field_value.id)
                 \/ \E i \in DOMAIN InnerValues(field_value) :
                        LET inner == InnerValues(field_value)[i] IN
                            /\ IsMixinInstance(h, inner)
                            /\ model_has_changed(h, inner.id)
    IN  self.model_self_changed_fields \cup {f \in FieldSet(self.cls) : nested(f)}

model_changed_fields(h, o) ==
    LET self == h[o]
        nested(f) ==
            /\ f \in DOMAIN self.dict
            /\ LET field_value == self.dict[f] IN
                 IF IsMixinInstance(h, field_value) /\ model_has_changed(h, field_value.id)
                 THEN TRUE
                 ELSE /\ Truthy(field_value)
                      /\ is_pydantic_change_detect_annotation(annotation(self.cls, f))
                      /\ \E i \in DOMAIN InnerValues(field_value) :
                            LET inner == InnerValues(field_value)[i] IN
                                /\ IsMixinInstance(h, inner)
                                /\ model_has_changed(h, inner.id)
    IN  self.model_self_changed_fields \cup {f \in FieldSet(self.cls) : nested(f)}

\* model_has_changed that answers for an instance from the state before the
\* last call, unless that call was made on the instance itself
model_has_changed_Cached(h, o) ==
    LET g == IF h = heap /\ last.op # "" /\ o # last.obj /\ o \in DOMAIN last.pre
             THEN last.pre ELSE h
    IN  IF g[o].model_self_changed_fields # {} \/ g[o].model_changed_markers # {}
        THEN TRUE
        ELSE model_changed_fields(g, o) # {}

model_has_changed(h, o) ==
    IF h[o].model_self_changed_fields # {} \/ h[o].model_changed_markers # {}
    THEN TRUE
    ELSE model_changed_fields(h, o) # {}

\* the recursive query without the descent into what the fields hold
model_changed_fields_recursive_Flat(h, o) ==
    [raised |-> FieldSet(h[o].cls) \cap DOMAIN h[o].dict # FieldSet(h[o].cls),
     value |-> model_changed_fields(h, o)]

\* the recursive query that leaves the scan of a container at the first
\* changed element, as model_changed_fields does
RECURSIVE model_changed_fields_recursive(_, _)
model_changed_fields_recursive_FirstHit(h, o) ==
    LET self == h[o]
        fields == FieldSet(self.cls)
        present == fields \cap DOMAIN self.dict
        direct(f) ==
            /\ IsMixinInstance(h, self.dict[f])
            /\ model_has_changed(h, self.dict[f].id)
        scanned(f) ==
            /\ ~direct(f)
            /\ Truthy(self.dict[f])
            /\ is_pydantic_change_detect_annotation(annotation(self.cls, f))
        all(f) ==
            LET inner == InnerIndexed(self.dict[f]) IN
            {i \in DOMAIN inner :
                /\ IsMixinInstance(h, inner[i].val)
                /\ model_has_changed(h, inner[i].val.id)}
        hits(f) == {i \in all(f) : \A j \in all(f) : i <= j}
        ofDirect(f) ==
            LET sub == model_changed_fields_recursive(h, self.dict[f].id) IN
            [raised |-> sub.raised,
             value |-> {f} \cup {f \o "." \o p : p \in sub.value}]
        ofInner(f, i) ==
            LET e == InnerIndexed(self.dict[f])[i]
                sub == model_changed_fields_recursive(h, e.val.id) IN
            [raised |-> sub.raised,
             value |-> {f, f \o "." \o e.index}
                        \cup {f \o "." \o e.index \o "." \o p : p \in sub.value}]
        parts ==
            {ofDirect(f) : f \in {g \in present : direct(g)}}
            \cup UNION {{ofInner(f, i) : i \in hits(f)} : f \in {g \in present : scanned(g)}}
    IN  IF present # fields \/ \E r \in parts : r.raised
        THEN [raised |-> TRUE, value |-> {}]
        ELSE [raised |-> FALSE,
              value |-> self.model_self_changed_fields \cup UNION {r.value : r \in parts}]

\* The recursive query reads self.__dict__[field_name] of every declared
\* field without a guard: "raised" is the KeyError of an absent field, in the
\* instance itself or in a changed child the walk descends into.
model_changed_fields_recursive(h, o) ==
    LET self == h[o]
        fields == FieldSet(self.cls)
        present == fields \cap DOMAIN self.dict
        direct(f) ==
            /\ IsMixinInstance(h, self.dict[f])
            /\ model_has_changed(h, self.dict[f].id)
        scanned(f) ==
            /\ ~direct(f)
            /\ Truthy(self.dict[f])
            /\ is_pydantic_change_detect_annotation(annotation(self.cls, f))
        hits(f) ==
            LET inner == InnerIndexed(self.dict[f]) IN
            {i \in DOMAIN inner :
                /\ IsMixinInstance(h, inner[i].val)
                /\ model_has_changed(h, inner[i].val.id)}
        ofDirect(f) ==
            LET sub == model_changed_fields_recursive(h, self.dict[f].id) IN
            [raised |-> sub.raised,
             value |-> {f} \cup {f \o "." \o p : p \in sub.value}]
        ofInner(f, i) ==
            LET e == InnerIndexed(self.dict[f])[i]
                sub == model_changed_fields_recursive(h, e.val.id) IN
            [raised |-> sub.raised,
             value |-> {f, f \o "." \o e.index}
                        \cup {f \o "." \o e.index \o "." \o p : p \in sub.value}]
        parts ==
            {ofDirect(f) : f \in {g \in present : direct(g)}}
            \cup UNION {{ofInner(f, i) : i \in hits(f)} : f \in {g \in present : scanned(g)}}
    IN  IF present # fields \/ \E r \in parts : r.raised
        THEN [raised |-> TRUE, value |-> {}]
        ELSE [raised |-> FALSE,
              value |-> self.model_self_changed_fields \cup UNION {r.value : r \in parts}]
---------------------------------------------------------------------------
(* changedetect.py: the operations on one instance *)

\* construction without the closing model_reset_changed: the fields that
\* were populated stay marked
NewObject_NoReset(cls, kwargs) ==
    [cls |-> cls,
     dict |-> kwargs,
     model_original |-> EmptyMap,
     model_self_changed_fields |-> DOMAIN kwargs,
     model_changed_markers |-> {}]

\* a new instance holding the given __dict__, after model_reset_changed; a
\* class with private attributes has them at their default in
\* __pydantic_private__
NewObject(cls, kwargs) ==
    IF private_attributes(cls) = {}
    THEN [cls |-> cls,
          dict |-> kwargs,
          model_original |-> EmptyMap,
          model_self_changed_fields |-> {},
          model_changed_markers |-> {}]
    ELSE [cls |-> cls,
          dict |-> kwargs,
          model_original |-> EmptyMap,
          model_self_changed_fields |-> {},
          model_changed_markers |-> {},
          pydantic_private |-> [a \in private_attributes(cls) |-> None]]

\* model_reset_changed that leaves the markers in place
model_reset_changed_KeepsMarkers(self) ==
    [self EXCEPT !.model_original = EmptyMap,
                 !.model_self_changed_fields = {}]

\* model_reset_changed that leaves the recorded originals in place
model_reset_changed_KeepsOriginal(self) ==
    [self EXCEPT !.model_self_changed_fields = {},
                 !.model_changed_markers = {}]

model_reset_changed(self) ==
    [self EXCEPT !.model_original = EmptyMap,
                 !.model_self_changed_fields = {},
                 !.model_changed_markers = {}]

Done(self) == [obj |-> self, raised |-> ""]

Raise(self, error) == [obj |-> self, raised |-> error]

\* the loop "for name in fields" that marks the fields as changed; reading
\* self.__dict__[name] of an absent field ends it with a KeyError, the names
\* before it already marked
RECURSIVE MarkFields(_, _, _)
MarkFields(self, fields, original) ==
    IF fields = <<>> THEN Done(self)
    ELSE LET name == Head(fields) IN
         IF original = NO_VALUE /\ name \notin DOMAIN self.dict
         THEN Raise(self, "KeyError")
         ELSE MarkFields(
                [self EXCEPT
                    !.model_original =
                        Put(@, name, IF original = NO_VALUE THEN self.dict[name] ELSE original),
                    !.model_self_changed_fields = @ \cup {name}],
                Tail(fields), original)

\* model_set_changed that records the live value also when original is given
model_set_changed_IgnoresOriginal(self, fields, original) ==
    IF original # NO_VALUE /\ Len(fields) > 1 THEN Raise(self, "RuntimeError")
    ELSE IF \E i \in DOMAIN fields : fields[i] \notin FieldSet(self.cls)
        THEN Raise(self, "AttributeError")
    ELSE MarkFields(self, fields, NO_VALUE)

\* model_set_changed without the loop that checks the names
model_set_changed_NoNameCheck(self, fields, original) ==
    IF original # NO_VALUE /\ Len(fields) > 1 THEN Raise(self, "RuntimeError")
    ELSE MarkFields(self, fields, original)

model_set_changed(self, fields, original) ==
    IF original # NO_VALUE /\ Len(fields) > 1 THEN Raise(self, "RuntimeError")
    ELSE IF \E i \in DOMAIN fields : fields[i] \notin FieldSet(self.cls)
        THEN Raise(self, "AttributeError")
    ELSE MarkFields(self, fields, original)

\* what pydantic's validation accepts for a field on construction
RECURSIVE Validates(_, _, _)
Validates(h, a, v) ==
    IF a.origin = "" /\ a.name = "int" THEN v.k = "int"
    ELSE IF a.origin = "" /\ a.name = "str" THEN v.k = "str"
    ELSE IF a.origin = "" /\ a.name \in MixinClasses \cup PlainClasses
        THEN v.k = "ref" /\ h[v.id].cls = a.name
    ELSE IF a.origin = "List"
        THEN v.k = "list" /\ \A i \in DOMAIN v.items : Validates(h, a.args[1], v.items[i])
    ELSE IF a.origin = "Tuple"
        THEN v.k = "tuple" /\ \A i \in DOMAIN v.items : Validates(h, a.args[1], v.items[i])
    ELSE IF a.origin = "Dict"
        THEN v.k = "dict" /\ \A i \in DOMAIN v.items : Validates(h, a.args[2], v.items[i].val)
    ELSE IF a.origin = "Union"
        THEN \E i \in DOMAIN a.args : Validates(h, a.args[i], v)
    ELSE FALSE

\* int(text) for the texts callers pass; -1 for a text that is no number
ParseInt(t) ==
    CASE t = "1" -> 1
      [] t = "2" -> 2
      [] t = "3" -> 3
      [] OTHER -> -1

\* pydantic's validation of an assigned value in lax mode: a str of digits
\* given to an int field becomes the int, a value of the annotated type is
\* kept as it is, anything else is refused
validate_assignment_value(h, a, v) ==
    IF a.origin = "" /\ a.name = "int" /\ v.k = "str" /\ ParseInt(v.s) >= 0
        THEN Returned(IntV(ParseInt(v.s)))
    ELSE IF Validates(h, a, v) THEN Returned(v)
    ELSE Raised("ValidationError")

\* BaseModel.__setattr__: a private attribute is kept in
\* __pydantic_private__; a name that is no field is refused; a field takes
\* the value, or where validate_assignment is set what validation makes of it
pydantic_setattr(h, self, name, value) ==
    IF name \in private_attributes(self.cls)
        THEN Done([self EXCEPT !.pydantic_private = Put(@, name, value)])
    ELSE IF name \notin FieldSet(self.cls) THEN Raise(self, "ValueError")
    ELSE IF validate_assignment(self.cls)
        THEN LET validated == validate_assignment_value(h, annotation(self.cls, name), value)
             IN  IF validated.raised # "" THEN Raise(self, validated.raised)
                 ELSE Done([self EXCEPT !.dict = Put(@, name, validated.val)])
    ELSE Done([self EXCEPT !.dict = Put(@, name, value)])

\* __setattr__ without the duplicate check: every assignment is recorded
setattr_NoEqualityCheck(h, o, name, value) ==
    LET self == h[o]
        stored == [self EXCEPT !.dict = Put(@, name, value)]
    IN  IF name \notin DOMAIN self.dict THEN Raise(self, "KeyError")
        ELSE Done([stored EXCEPT
                    !.model_original =
                        IF name \in DOMAIN @ THEN @ ELSE Put(@, name, self.dict[name]),
                    !.model_self_changed_fields = @ \cup {name}])

\* __setattr__ without the guard "name not in self.model_original": every
\* recorded assignment captures the value it replaces
setattr_AlwaysCapture(h, o, name, value) ==
    LET self == h[o]
        stored == [self EXCEPT !.dict = Put(@, name, value)]
    IN  IF name \notin DOMAIN self.dict THEN Raise(self, "KeyError")
        ELSE IF /\ model_value_is_comparable_type(self.dict[name])
                /\ model_value_is_comparable_type(value)
                /\ PyEq([h EXCEPT ![o] = stored], self.dict[name], value)
        THEN Done(stored)
        ELSE Done([stored EXCEPT
                    !.model_original = Put(@, name, self.dict[name]),
                    !.model_self_changed_fields = @ \cup {name}])

\* __setattr__ that reads the "original" after storing the new value
setattr_CaptureAfterStore(h, o, name, value) ==
    LET self == h[o]
        stored == [self EXCEPT !.dict = Put(@, name, value)]
    IN  IF name \notin DOMAIN self.dict THEN Raise(self, "KeyError")
        ELSE Done([stored EXCEPT
                    !.model_original = IF name \in DOMAIN @ THEN @ ELSE Put(@, name, value),
                    !.model_self_changed_fields = @ \cup {name}])

\* a __setattr__ that treats private attributes as it treats fields
setattr_TracksPrivate(h, o, name, value) ==
    LET self == h[o] IN
    IF name \in private_attributes(self.cls)
    THEN Done([self EXCEPT !.pydantic_private = Put(@, name, value),
                           !.model_self_changed_fields = @ \cup {name}])
    ELSE Done([self EXCEPT !.dict = Put(@, name, value),
                           !.model_self_changed_fields = @ \cup {name}])

\* a __setattr__ that records the change before pydantic takes the value
setattr_RecordsFirst(h, o, name, value) ==
    LET self == h[o]
        recorded == [self EXCEPT
                        !.model_original =
                            IF name \in DOMAIN @ \/ name \notin DOMAIN self.dict
                            THEN @ ELSE Put(@, name, self.dict[name]),
                        !.model_self_changed_fields = @ \cup {name}]
        set == pydantic_setattr(h, recorded, name, value)
    IN  IF set.raised # "" THEN Raise(recorded, set.raised) ELSE set

\* a __setattr__ that takes a field back out of the records when it is
\* set to its recorded original again
setattr_ForgetsRevert(h, o, name, value) ==
    LET self == h[o]
        set == pydantic_setattr(h, self, name, value)
    IN  IF name \notin DOMAIN self.dict THEN Raise(self, "KeyError")
        ELSE IF set.raised # "" THEN set
        ELSE IF /\ name \in DOMAIN self.model_original
                /\ model_value_is_actually_unchanged(h, self.model_original[name], value)
        THEN Done([set.obj EXCEPT
                    !.model_original = [x \in DOMAIN @ \ {name} |-> @[x]],
                    !.model_self_changed_fields = @ \ {name}])
        ELSE Done([set.obj EXCEPT
                    !.model_original =
                        IF name \in DOMAIN @ THEN @ ELSE Put(@, name, self.dict[name]),
                    !.model_self_changed_fields = @ \cup {name}])

\* a __setattr__ that compares whatever the values are and records the
\* write only when they differ
setattr_SuppressesEqual(h, o, name, value) ==
    LET self == h[o]
        set == pydantic_setattr(h, self, name, value)
    IN  IF name \in private_attributes(self.cls) \/ set.raised # "" THEN set
        ELSE IF model_value_is_actually_unchanged(h, self.dict[name], value)
        THEN Done(set.obj)
        ELSE Done([set.obj EXCEPT
                    !.model_original =
                        IF name \in DOMAIN @ THEN @ ELSE Put(@, name, self.dict[name]),
                    !.model_self_changed_fields = @ \cup {name}])

\* a __setattr__ that decides on the value it was given and not on the one
\* pydantic stored
setattr_ComparesInput(h, o, name, value) ==
    LET self == h[o]
        set == pydantic_setattr(h, self, name, value)
        recorded == name \in DOMAIN self.model_original
    IN  IF name \in private_attributes(self.cls) \/ set.raised # "" THEN set
        ELSE IF /\ model_value_is_comparable_type(IF recorded THEN None ELSE self.dict[name])
                /\ model_value_is_comparable_type(value)
                /\ model_value_is_actually_unchanged(
                        h, IF recorded THEN None ELSE self.dict[name], value)
        THEN Done(set.obj)
        ELSE Done([set.obj EXCEPT
                    !.model_original =
                        IF recorded THEN @ ELSE Put(@, name, self.dict[name]),
                    !.model_self_changed_fields = @ \cup {name}])

\* __setattr__: a private attribute goes straight to pydantic; for anything
\* else the value about to be replaced is read, pydantic stores the new one
\* (or raises), and the change is recorded unless both values are comparable
\* and equal
setattr(h, o, name, value) ==
    LET self == h[o] IN
    IF name \in private_attributes(self.cls)
    THEN pydantic_setattr(h, self, name, value)
    ELSE
    LET capture == name \in FieldSet(self.cls) /\ name \notin DOMAIN self.model_original
    IN  IF capture /\ name \notin DOMAIN self.dict THEN Raise(self, "KeyError")
        ELSE
        LET original_update == IF capture THEN (name :> self.dict[name]) ELSE EmptyMap
            set == pydantic_setattr(h, self, name, value)
        IN  IF set.raised # "" THEN set
            ELSE
            LET stored == set.obj
                h2 == [h EXCEPT ![o] = stored]
                original_value ==
                    IF name \in DOMAIN original_update THEN original_update[name] ELSE None
                current_value == stored.dict[name]
                has_changed ==
                    ~ (/\ name \in FieldSet(self.cls)
                       /\ model_value_is_comparable_type(original_value)
                       /\ model_value_is_comparable_type(current_value)
                       /\ model_value_is_actually_unchanged(h2, original_value, current_value))
            IN  IF has_changed
                THEN Done([stored EXCEPT
                            !.model_original = original_update @@ @,
                            !.model_self_changed_fields = @ \cup {name}])
                ELSE Done(stored)

\* model_mark_changed that replaces the set of markers by the one given
model_mark_changed_Replaces(self, marker) ==
    [self EXCEPT !.model_changed_markers = {marker}]

\* model_mark_changed that books the marker among the changed fields
model_mark_changed_AsField(self, marker) ==
    [self EXCEPT !.model_changed_markers = @ \cup {marker},
                 !.model_self_changed_fields = @ \cup {marker}]

model_mark_changed(self, marker) ==
    [self EXCEPT !.model_changed_markers = @ \cup {marker}]

model_unmark_changed(self, marker) ==
    [self EXCEPT !.model_changed_markers = @ \ {marker}]

model_has_changed_marker(self, marker) == marker \in self.model_changed_markers

\* the keyword arguments handed on to pydantic's serializer: "include" is
\* NoInclude for include=None, or Include(names)
NoInclude == [given |-> FALSE, names |-> {}]

Include(names) == [given |-> TRUE, names |-> names]

\* an export that lets the caller's include stand when there is one
get_changed_export_includes_KeepsInclude(h, o, exclude_unchanged, include) ==
    IF exclude_unchanged /\ ~include.given
    THEN Include(model_changed_fields(h, o))
    ELSE include

get_changed_export_includes(h, o, exclude_unchanged, include) ==
    IF exclude_unchanged
    THEN LET changed_fields == model_changed_fields(h, o) IN
         IF include.given
         THEN Include({i \in include.names : i \in changed_fields})
         ELSE Include(changed_fields)
    ELSE include

\* the keys of model_dump(exclude_unchanged=..., include=...): the fields the
\* instance holds, cut down to the inclusion set when there is one
model_dump(h, o, exclude_unchanged, include) ==
    LET kwargs == get_changed_export_includes(h, o, exclude_unchanged, include) IN
    IF kwargs.given
    THEN {f \in FieldSet(h[o].cls) \cap DOMAIN h[o].dict : f \in kwargs.names}
    ELSE FieldSet(h[o].cls) \cap DOMAIN h[o].dict

---------------------------------------------------------------------------
(* changedetect.py: restoring the original state *)

\* the result of a call that may allocate: the heap after it, the value it
\* returns and the error it raised ("" for none)
Result(h, v, raised) == [heap |-> h, value |-> v, raised |-> raised]

RECURSIVE model_restore_value(_, _)
RECURSIVE model_restore_original(_, _)
RECURSIVE RestoreItems(_, _, _)
RECURSIVE RestoreFields(_, _, _)

\* the comprehension over the elements of a list, or the values of a dict
RestoreItems(h, items, isdict) ==
    IF items = <<>> THEN Result(h, <<>>, "")
    ELSE LET first == model_restore_value(h, IF isdict THEN Head(items).val ELSE Head(items)) IN
         IF first.raised # "" THEN Result(first.heap, <<>>, first.raised)
         ELSE LET rest == RestoreItems(first.heap, Tail(items), isdict)
                  entry == IF isdict THEN [key |-> Head(items).key, val |-> first.value]
                           ELSE first.value
              IN  Result(rest.heap, <<entry>> \o rest.value, rest.raised)

model_restore_value(h, value) ==
    IF value.k = "list"
        THEN LET r == RestoreItems(h, value.items, FALSE) IN
             Result(r.heap, [k |-> "list", items |-> r.value], r.raised)
    ELSE IF value.k = "dict"
        THEN LET r == RestoreItems(h, value.items, TRUE) IN
             Result(r.heap, [k |-> "dict", items |-> r.value], r.raised)
    ELSE IF IsMixinInstance(h, value) /\ model_has_changed(h, value.id)
        THEN model_restore_original(h, value.id)
    ELSE Result(h, value, "")

\* the loop over self.__dict__.items() filling restored_values
RestoreFields(h, self, keys) ==
    IF keys = <<>> THEN Result(h, EmptyMap, "")
    ELSE LET first == model_restore_value(h, self.dict[Head(keys)]) IN
         IF first.raised # "" THEN Result(first.heap, EmptyMap, first.raised)
         ELSE LET rest == RestoreFields(first.heap, self, Tail(keys)) IN
              Result(rest.heap, (Head(keys) :> first.value) @@ rest.value, rest.raised)

\* a restore that puts the original values back into the instance itself
model_restore_original_InPlace(h, o) ==
    LET self == h[o]
        present(f) == f \in DOMAIN self.dict
        r == RestoreFields(h, self, SelectSeq(model_fields(self.cls), present))
        merged == self.model_original @@ r.value
    IN  IF r.raised # "" THEN Result(r.heap, None, r.raised)
        ELSE Result([r.heap EXCEPT ![o] = NewObject(self.cls, merged)], Ref(o), "")

\* self.__class__(**{**restored_values, **self.model_original})
model_restore_original(h, o) ==
    LET self == h[o]
        present(f) == f \in DOMAIN self.dict
        r == RestoreFields(h, self, SelectSeq(model_fields(self.cls), present))
        merged == self.model_original @@ r.value
        valid == \A f \in FieldSet(self.cls) :
                    /\ f \in DOMAIN merged
                    /\ Validates(r.heap, annotation(self.cls, f), merged[f])
    IN  IF r.raised # "" THEN Result(r.heap, None, r.raised)
        ELSE IF ~valid THEN Result(r.heap, None, "ValidationError")
        ELSE Result(Append(r.heap, NewObject(self.cls, [f \in FieldSet(self.cls) |-> merged[f]])),
                    Ref(Len(r.heap) + 1), "")

\* model_get_original_field_value that does not look into model_original
model_get_original_field_value_Live(h, o, field_name) ==
    LET self == h[o] IN
    IF field_name \notin FieldSet(self.cls) THEN Result(h, None, "AttributeError")
    ELSE IF field_name \notin DOMAIN self.dict THEN Result(h, None, "AttributeError")
    ELSE model_restore_value(h, self.dict[field_name])

model_get_original_field_value(h, o, field_name) ==
    LET self == h[o] IN
    IF field_name \notin FieldSet(self.cls) THEN Result(h, None, "AttributeError")
    ELSE IF field_name \in DOMAIN self.model_original
        THEN Result(h, self.model_original[field_name], "")
    ELSE IF field_name \notin DOMAIN self.dict THEN Result(h, None, "AttributeError")
    ELSE model_restore_value(h, self.dict[field_name])

---------------------------------------------------------------------------
(* changedetect.py: copies *)

\* the result of a copy: the heap after it, the value it returns and the
\* memo of copy.deepcopy (source instance -> its clone)
Copied(h, v, memo) == [heap |-> h, value |-> v, memo |-> memo]

\* a clone: the class of self, the given __dict__, and the three slots set
\* from self.model_original.copy(), self.model_self_changed_fields.copy()
\* and self.model_changed_markers.copy()
CloneOf_Fresh(self, dict) == NewObject(self.cls, dict)

CloneOf(self, dict) ==
    [self EXCEPT !.dict = dict,
                 !.model_original = self.model_original,
                 !.model_self_changed_fields = self.model_self_changed_fields,
                 !.model_changed_markers = self.model_changed_markers]

\* copy.copy(obj), obj.model_copy(): BaseModel.__copy__ makes a new instance
\* with a copy of __dict__, the values themselves shared with the source
__copy__(h, o) ==
    Copied(Append(h, CloneOf(h[o], h[o].dict)), Ref(Len(h) + 1), EmptyMap)

RECURSIVE deepcopy(_, _, _)
RECURSIVE DeepCopyItems(_, _, _, _)
RECURSIVE DeepCopyDict(_, _, _, _)

\* copy.deepcopy of the elements of a list or tuple, or the values of a dict
DeepCopyItems(h, items, isdict, memo) ==
    IF items = <<>> THEN Copied(h, <<>>, memo)
    ELSE LET first == deepcopy(h, IF isdict THEN Head(items).val ELSE Head(items), memo)
             rest == DeepCopyItems(first.heap, Tail(items), isdict, first.memo)
             entry == IF isdict THEN Entry(Head(items).key, first.value) ELSE first.value
         IN  Copied(rest.heap, <<entry>> \o rest.value, rest.memo)

\* copy.deepcopy(self.__dict__, memo), field by field
DeepCopyDict(h, dict, keys, memo) ==
    IF keys = <<>> THEN Copied(h, EmptyMap, memo)
    ELSE LET first == deepcopy(h, dict[Head(keys)], memo)
             rest == DeepCopyDict(first.heap, dict, Tail(keys), first.memo)
         IN  Copied(rest.heap, (Head(keys) :> first.value) @@ rest.value, rest.memo)

\* a deep copy that leaves the instances it meets shared
deepcopy_SharesInstances(h, v, memo) == Copied(h, v, memo)

\* copy.deepcopy(value, memo): containers are rebuilt, an instance is cloned
\* by its __deepcopy__ (once: the memo remembers the clone), a nested
\* instance of the mixin taking its three slots along
deepcopy(h, v, memo) ==
    IF v.k \in {"list", "tuple"}
        THEN LET r == DeepCopyItems(h, v.items, FALSE, memo) IN
             Copied(r.heap, [k |-> v.k, items |-> r.value], r.memo)
    ELSE IF v.k = "dict"
        THEN LET r == DeepCopyItems(h, v.items, TRUE, memo) IN
             Copied(r.heap, [k |-> "dict", items |-> r.value], r.memo)
    ELSE IF v.k = "ref"
        THEN IF v.id \in DOMAIN memo THEN Copied(h, Ref(memo[v.id]), memo)
             ELSE LET self == h[v.id]
                      present(f) == f \in DOMAIN self.dict
                      r == DeepCopyDict(h, self.dict,
                                        SelectSeq(model_fields(self.cls), present), memo)
                      id == Len(r.heap) + 1
                  IN  Copied(Append(r.heap, CloneOf(self, r.value)), Ref(id),
                             Put(r.memo, v.id, id))
    ELSE Copied(h, v, memo)

\* copy.deepcopy(obj), obj.model_copy(deep=True)
__deepcopy__(h, o) ==
    LET self == h[o]
        present(f) == f \in DOMAIN self.dict
        r == DeepCopyDict(h, self.dict, SelectSeq(model_fields(self.cls), present), EmptyMap)
    IN  Copied(Append(r.heap, CloneOf(self, r.value)), Ref(Len(r.heap) + 1), r.memo)

\* obj.copy(update=..., deep=...) of the pydantic 1 interface: the values of
\* __dict__ with those of update put over them, deep-copied when asked, in a
\* new instance; then the three slots as above
copy(h, o, update, deep) ==
    LET self == h[o]
        values == update @@ self.dict
        present(f) == f \in DOMAIN values
        keys == SelectSeq(model_fields(self.cls), present)
        r == IF deep THEN DeepCopyDict(h, values, keys, EmptyMap)
             ELSE Copied(h, values, EmptyMap)
    IN  Copied(Append(r.heap, CloneOf(self, r.value)), Ref(Len(r.heap) + 1), r.memo)

---------------------------------------------------------------------------
(* changedetect.py: pickling *)

StateKeys == {"model_original", "model_self_changed_fields", "model_changed_markers"}

\* what BaseModel.__getstate__ gives, as far as it is followed here
getstate_WithoutTracking(h, o) == [dict |-> h[o].dict]

\* state = super().__getstate__(), then a copy of each of the three slots
\* under its name; a model without the mixin has the state of BaseModel
__getstate__(h, o) ==
    IF h[o].cls \in MixinClasses
    THEN [dict |-> h[o].dict,
          model_original |-> h[o].model_original,
          model_self_changed_fields |-> h[o].model_self_changed_fields,
          model_changed_markers |-> h[o].model_changed_markers]
    ELSE [dict |-> h[o].dict]

\* a state with one of its entries taken out
Without(state, key) == [x \in DOMAIN state \ {key} |-> state[x]]

\* a __setstate__ that takes the tracking state only when all of it is there
setstate_AllOrNothing(cls, state) ==
    IF StateKeys \subseteq DOMAIN state
    THEN [cls |-> cls,
          dict |-> state.dict,
          model_original |-> state.model_original,
          model_self_changed_fields |-> state.model_self_changed_fields,
          model_changed_markers |-> state.model_changed_markers]
    ELSE NewObject(cls, state.dict)

\* super().__setstate__(state), then each of the three slots from the state
\* when it is there and empty when it is not
__setstate__(cls, state) ==
    [cls |-> cls,
     dict |-> state.dict,
     model_original |->
        IF "model_original" \in DOMAIN state THEN state.model_original ELSE EmptyMap,
     model_self_changed_fields |->
        IF "model_self_changed_fields" \in DOMAIN state
        THEN state.model_self_changed_fields ELSE {},
     model_changed_markers |->
        IF "model_changed_markers" \in DOMAIN state
        THEN state.model_changed_markers ELSE {}]

\* pickle.dumps(value): the value written out, an instance as its class and
\* its pickled __getstate__() (tagged with the instance it was, which is what
\* the memo of the pickler keeps)
RECURSIVE dumps(_, _)
dumps(h, v) ==
    IF v.k \in {"list", "tuple"}
        THEN [k |-> v.k, items |-> [i \in DOMAIN v.items |-> dumps(h, v.items[i])]]
    ELSE IF v.k = "dict"
        THEN [k |-> "dict",
              items |-> [i \in DOMAIN v.items |->
                            Entry(v.items[i].key, dumps(h, v.items[i].val))]]
    ELSE IF v.k = "ref"
        THEN LET state == __getstate__(h, v.id)
                 values(m) == [f \in DOMAIN m |-> dumps(h, m[f])]
             IN  [k |-> "pickled", of |-> v.id, cls |-> h[v.id].cls,
                  state |-> [x \in DOMAIN state |->
                                IF x \in {"dict", "model_original"}
                                THEN values(state[x]) ELSE state[x]]]
    ELSE v

RECURSIVE loads(_, _, _)
RECURSIVE LoadItems(_, _, _, _)
RECURSIVE LoadValues(_, _, _, _)

\* the elements of a pickled list or tuple, or the values of a pickled dict
LoadItems(h, items, isdict, memo) ==
    IF items = <<>> THEN Copied(h, <<>>, memo)
    ELSE LET first == loads(h, IF isdict THEN Head(items).val ELSE Head(items), memo)
             rest == LoadItems(first.heap, Tail(items), isdict, first.memo)
             entry == IF isdict THEN Entry(Head(items).key, first.value) ELSE first.value
         IN  Copied(rest.heap, <<entry>> \o rest.value, rest.memo)

\* the values of a pickled __dict__ or model_original, name by name
LoadValues(h, m, keys, memo) ==
    IF keys = <<>> THEN Copied(h, EmptyMap, memo)
    ELSE LET first == loads(h, m[Head(keys)], memo)
             rest == LoadValues(first.heap, m, Tail(keys), first.memo)
         IN  Copied(rest.heap, (Head(keys) :> first.value) @@ rest.value, rest.memo)

\* pickle.loads: containers are rebuilt; a pickled instance becomes a new
\* instance of its class (once: the memo of the unpickler) that is handed
\* its unpickled state by __setstate__
loads(h, pv, memo) ==
    IF pv.k \in {"list", "tuple"}
        THEN LET r == LoadItems(h, pv.items, FALSE, memo) IN
             Copied(r.heap, [k |-> pv.k, items |-> r.value], r.memo)
    ELSE IF pv.k = "dict"
        THEN LET r == LoadItems(h, pv.items, TRUE, memo) IN
             Copied(r.heap, [k |-> "dict", items |-> r.value], r.memo)
    ELSE IF pv.k = "pickled"
        THEN IF pv.of \in DOMAIN memo THEN Copied(h, Ref(memo[pv.of]), memo)
             ELSE LET held(m) == SelectSeq(model_fields(pv.cls), LAMBDA f : f \in DOMAIN m)
                      d == LoadValues(h, pv.state.dict, held(pv.state.dict), memo)
                      hasorig == "model_original" \in DOMAIN pv.state
                      orig == IF hasorig
                              THEN LoadValues(d.heap, pv.state.model_original,
                                              held(pv.state.model_original), d.memo)
                              ELSE Copied(d.heap, EmptyMap, d.memo)
                      state == [x \in DOMAIN pv.state |->
                                    IF x = "dict" THEN d.value
                                    ELSE IF x = "model_original" THEN orig.value
                                    ELSE pv.state[x]]
                      new == IF pv.cls \in MixinClasses THEN __setstate__(pv.cls, state)
                             ELSE NewObject(pv.cls, state.dict)
                      id == Len(orig.heap) + 1
                  IN  Copied(Append(orig.heap, new), Ref(id), Put(orig.memo, pv.of, id))
    ELSE Copied(h, pv, memo)

---------------------------------------------------------------------------
(* The callers: what is constructed and what is passed in *)

Markers == {"test"}

FamilyMarkers == {"test", "x"}

Ints == {IntV(i) : i \in 1..MaxInt}

Refs(h) == {Ref(i) : i \in DOMAIN h}

Strs == {StrV("a"), StrV("b")}

Values(h) == {None} \cup Ints \cup Strs \cup Refs(h)

\* the key of the dict entries
Key == StrV("k")

\* the containers callers pass: empty, or holding one instance
ContainerValues(h) ==
    {ListV(<<>>), TupleV(<<>>), DictV(<<>>)}
    \cup {ListV(<<r>>) : r \in Refs(h)}
    \cup {TupleV(<<r>>) : r \in Refs(h)}
    \cup {DictV(<<Entry(Key, r)>>) : r \in Refs(h)}

\* the instances another instance holds, directly or in a container
Children(h, o) ==
    LET held(v) == IF v.k = "ref" THEN {v.id}
                   ELSE {InnerValues(v)[i].id :
                            i \in {j \in DOMAIN InnerValues(v) : InnerValues(v)[j].k = "ref"}}
    IN  UNION {held(h[o].dict[f]) : f \in DOMAIN h[o].dict}

RECURSIVE Reach(_, _)
Reach(h, o) == {o} \cup UNION {Reach(h, c) : c \in Children(h, o)}

\* storing the value in instance o keeps the nesting acyclic
KeepsAcyclic(h, o, v) ==
    /\ v.k = "ref" => o \notin Reach(h, v.id)
    /\ \A i \in DOMAIN InnerValues(v) :
            InnerValues(v)[i].k = "ref" => o \notin Reach(h, InnerValues(v)[i].id)

\* own tracking state as model_reset_changed leaves it
IsClean(self) ==
    /\ self.model_original = EmptyMap
    /\ self.model_self_changed_fields = {}
    /\ self.model_changed_markers = {}

CoreClasses == {"Something", "Nested"}

\* the values the callers put into a field: what its annotation validates
FieldValues(h, cls, f) ==
    {v \in Values(h) \cup ContainerValues(h) : Validates(h, annotation(cls, f), v)}

\* the names given to the calls on an instance of a class: declared or not
InvalidName == "invalid_field_name"

NameLists(cls) ==
    {<<>>, <<InvalidName>>}
    \cup {<<a>> : a \in FieldSet(cls)}
    \cup {<<a, b>> : a \in FieldSet(cls), b \in FieldSet(cls) \cup {InvalidName}}

\* the values given as original=...: a value of one of the named fields
Originals(h, cls, fields) ==
    {NO_VALUE} \cup UNION {FieldValues(h, cls, f) : f \in Range(fields) \cap FieldSet(cls)}

\* A run is a sequence of calls.  Any one call of it can be the call under
\* observation: it is then the last call of the run, and "last" holds its
\* name, target, arguments, the error it raised ("" for none) and the heap
\* it started from.  Calls that are passed over leave "last" at NoCall.
NoCall == [op |-> "", obj |-> 0, names |-> <<>>, val |-> None, raised |-> "", pre |-> <<>>]

Call(op, o, names, val, raised) ==
    [op |-> op, obj |-> o, names |-> names, val |-> val, raised |-> raised, pre |-> heap]

Returns(call) == last' \in {NoCall, call}

---------------------------------------------------------------------------
(* Actions *)

Init ==
    /\ heap = <<>>
    /\ last = NoCall
    /\ baseline = <<>>
    /\ clones = <<>>
    /\ blobs = <<>>
    /\ argument = None

\* cls(**kwargs): validated construction, __init__ then model_reset_changed
Construct(cls) ==
    /\ last = NoCall
    /\ Len(heap) < MaxObjs
    /\ \E kwargs \in [FieldSet(cls) -> Values(heap)] :
        /\ \A f \in FieldSet(cls) : Validates(heap, annotation(cls, f), kwargs[f])
        /\ heap' = Append(heap, NewObject(cls, kwargs))
        /\ Returns(Call("init", Len(heap) + 1, <<>>, None, ""))
        /\ UNCHANGED <<baseline, clones, blobs, argument>>

\* cls.model_construct(**kwargs): any of the fields, nothing validated
ModelConstruct(cls) ==
    /\ last = NoCall
    /\ Len(heap) < MaxObjs
    /\ \E given \in SUBSET FieldSet(cls) :
       \E kwargs \in [given -> Values(heap)] :
        /\ \A f \in given : kwargs[f] \in FieldValues(heap, cls, f)
        /\ heap' = Append(heap, NewObject(cls, kwargs))
        /\ Returns(Call("model_construct", Len(heap) + 1, <<>>, None, ""))
        /\ UNCHANGED <<baseline, clones, blobs, argument>>

\* obj.name = value
SetAttr(o) ==
    /\ last = NoCall
    /\ \E name \in FieldSet(heap[o].cls) :
       \E value \in FieldValues(heap, heap[o].cls, name) :
        /\ KeepsAcyclic(heap, o, value)
        /\ LET r == setattr(heap, o, name, value) IN
            /\ heap' = [heap EXCEPT ![o] = r.obj]
            /\ Returns(Call("setattr", o, <<name>>, value, r.raised))
            /\ UNCHANGED <<baseline, clones, blobs, argument>>

\* obj.model_set_changed(*fields, original=...)
ModelSetChanged(o) ==
    /\ last = NoCall
    /\ \E fields \in NameLists(heap[o].cls) :
       \E original \in Originals(heap, heap[o].cls, fields) :
        LET r == model_set_changed(heap[o], fields, original) IN
            /\ heap' = [heap EXCEPT ![o] = r.obj]
            /\ Returns(Call("model_set_changed", o, fields, original, r.raised))
            /\ UNCHANGED <<baseline, clones, blobs, argument>>

\* obj.model_reset_changed()
ModelResetChanged(o) ==
    /\ last = NoCall
    /\ heap' = [heap EXCEPT ![o] = model_reset_changed(heap[o])]
    /\ Returns(Call("model_reset_changed", o, <<>>, None, ""))
    /\ UNCHANGED <<baseline, clones, blobs, argument>>

\* obj.model_mark_changed(marker)
ModelMarkChanged(o, markers) ==
    /\ last = NoCall
    /\ \E marker \in markers :
        /\ heap' = [heap EXCEPT ![o] = model_mark_changed(heap[o], marker)]
        /\ Returns(Call("model_mark_changed", o, <<marker>>, None, ""))
        /\ UNCHANGED <<baseline, clones, blobs, argument>>

\* obj.model_unmark_changed(marker)
ModelUnmarkChanged(o, markers) ==
    /\ last = NoCall
    /\ \E marker \in markers :
        /\ heap' = [heap EXCEPT ![o] = model_unmark_changed(heap[o], marker)]
        /\ Returns(Call("model_unmark_changed", o, <<marker>>, None, ""))
        /\ UNCHANGED <<baseline, clones, blobs, argument>>

Next ==
    \/ \E cls \in CoreClasses : Construct(cls)
    \/ \E cls \in CoreClasses : ModelConstruct(cls)
    \/ \E o \in DOMAIN heap : SetAttr(o)
    \/ \E o \in DOMAIN heap : ModelSetChanged(o)
    \/ \E o \in DOMAIN heap : ModelResetChanged(o)
    \/ \E o \in DOMAIN heap : ModelMarkChanged(o, Markers)
    \/ \E o \in DOMAIN heap : ModelUnmarkChanged(o, Markers)

Spec == Init /\ [][Next]_vars

\* A parent and two children, as the nesting tests build them:
\* a = Something(id=i); b = Something(id=j); p = Nested(sub=a)
InitFamily ==
    /\ \E i \in 1..MaxInt, j \in 1..MaxInt :
        heap = << NewObject("Something", "id" :> IntV(i)),
                  NewObject("Something", "id" :> IntV(j)),
                  NewObject("Nested", "sub" :> Ref(1)) >>
    /\ last = NoCall
    /\ baseline = <<>>
    /\ clones = <<>>
    /\ blobs = <<>>
    /\ argument = None

NextFamily ==
    \/ \E o \in DOMAIN heap : SetAttr(o)
    \/ \E o \in DOMAIN heap : ModelSetChanged(o)
    \/ \E o \in DOMAIN heap : ModelResetChanged(o)
    \/ \E o \in DOMAIN heap : ModelMarkChanged(o, FamilyMarkers)
    \/ \E o \in DOMAIN heap : ModelUnmarkChanged(o, FamilyMarkers)

SpecFamily == InitFamily /\ [][NextFamily]_vars

\* BaseModel.__setattr__ of a model without the mixin: the value is stored
PlainSetAttr(o) ==
    /\ last = NoCall
    /\ \E name \in FieldSet(heap[o].cls) :
       \E value \in FieldValues(heap, heap[o].cls, name) :
        /\ heap' = [heap EXCEPT ![o].dict = Put(@, name, value)]
        /\ Returns(Call("plain_setattr", o, <<name>>, value, ""))
        /\ UNCHANGED <<baseline, clones, blobs, argument>>

Mixins(h) == {o \in DOMAIN h : h[o].cls \in MixinClasses}

Plains(h) == {o \in DOMAIN h : h[o].cls \in PlainClasses}

\* The ways a parent holds instance 1 in its first field: as the nesting
\* tests build it, and what model_construct accepts without validation
Holdings ==
    {[cls |-> "NestedList", value |-> ListV(<<Ref(1)>>)],
     [cls |-> "NestedTuple", value |-> TupleV(<<Ref(1)>>)],
     [cls |-> "NestedDict", value |-> DictV(<<Entry(Key, Ref(1))>>)],
     [cls |-> "NestedUnsupported", value |-> Ref(1)],
     [cls |-> "NestedList", value |-> ListV(<<ListV(<<Ref(1)>>)>>)],
     [cls |-> "Something", value |-> Ref(1)],
     [cls |-> "Something", value |-> ListV(<<Ref(1)>>)]}

\* child = Something(id=i) or Unsupported(id=i), then the parent around it
\* (a model without the mixin has no tracking slots: they stay empty here)
InitShapes ==
    /\ \E c \in {"Something", "Unsupported"}, i \in 1..MaxInt, hd \in Holdings :
        heap = << NewObject(c, "id" :> IntV(i)),
                  NewObject(hd.cls, Head(model_fields(hd.cls)) :> hd.value) >>
    /\ last = NoCall
    /\ baseline = <<>>
    /\ clones = <<>>
    /\ blobs = <<>>
    /\ argument = None

NextShapes ==
    \/ \E o \in Mixins(heap) : SetAttr(o)
    \/ \E o \in Plains(heap) : PlainSetAttr(o)
    \/ \E o \in Mixins(heap) : ModelResetChanged(o)
    \/ \E o \in Mixins(heap) : ModelMarkChanged(o, Markers)

SpecShapes == InitShapes /\ [][NextShapes]_vars

\* what a value is, all the way down: instances by their class and fields
RECURSIVE DeepValue(_, _)
DeepValue(h, v) ==
    IF v.k = "ref"
        THEN [k |-> "model", cls |-> h[v.id].cls,
              fields |-> [f \in DOMAIN h[v.id].dict |-> DeepValue(h, h[v.id].dict[f])]]
    ELSE IF v.k \in {"list", "tuple"}
        THEN [k |-> v.k, items |-> [i \in DOMAIN v.items |-> DeepValue(h, v.items[i])]]
    ELSE IF v.k = "dict"
        THEN [k |-> "dict",
              items |-> [i \in DOMAIN v.items |->
                            Entry(v.items[i].key, DeepValue(h, v.items[i].val))]]
    ELSE v

Snapshot(h) == [o \in DOMAIN h |-> DeepValue(h, Ref(o))]

\* The parents of the restore tests around instance 1
RestoreParents ==
    {[cls |-> "Nested", value |-> Ref(1)],
     [cls |-> "NestedList", value |-> ListV(<<Ref(1)>>)],
     [cls |-> "NestedTuple", value |-> TupleV(<<Ref(1)>>)],
     [cls |-> "NestedDict", value |-> DictV(<<Entry(Key, Ref(1))>>)]}

\* a = Something(id=i); b = Something(id=j); p = <parent class>(sub=...a...)
InitRestore ==
    /\ \E i \in 1..MaxInt, j \in 1..MaxInt, hd \in RestoreParents :
        heap = << NewObject("Something", "id" :> IntV(i)),
                  NewObject("Something", "id" :> IntV(j)),
                  NewObject(hd.cls, "sub" :> hd.value) >>
    /\ last = NoCall
    /\ baseline = Snapshot(heap)
    /\ clones = <<>>
    /\ blobs = <<>>
    /\ argument = None

\* the instances the callers made; a restore adds instances of its own
Made == 1..3

\* the instances the calls that change something are made on: the child held
\* at the start and the parent; instance 2 is the one to swap in
Touched == {1, 3}

\* obj.model_reset_changed(), the history noting what obj holds now
ModelResetChangedAt(o) ==
    /\ last = NoCall
    /\ heap' = [heap EXCEPT ![o] = model_reset_changed(heap[o])]
    /\ baseline' = [baseline EXCEPT ![o] = DeepValue(heap, Ref(o))]
    /\ UNCHANGED <<clones, blobs, argument>>
    /\ Returns(Call("model_reset_changed", o, <<>>, None, ""))

\* obj.model_restore_original(): always the call under observation, its
\* result in last.val
ModelRestoreOriginal(o) ==
    /\ last = NoCall
    /\ LET r == model_restore_original(heap, o) IN
        /\ heap' = r.heap
        /\ last' = Call("model_restore_original", o, <<>>, r.value, r.raised)
    /\ UNCHANGED <<baseline, clones, blobs, argument>>

\* obj.model_get_original_field_value(name): always the call under
\* observation, its result in last.val
ModelGetOriginalFieldValue(o) ==
    /\ last = NoCall
    /\ \E name \in FieldSet(heap[o].cls) \cup {InvalidName} :
        LET r == model_get_original_field_value(heap, o, name) IN
        /\ heap' = r.heap
        /\ last' = Call("model_get_original_field_value", o, <<name>>, r.value, r.raised)
    /\ UNCHANGED <<baseline, clones, blobs, argument>>

NextRestore ==
    \/ \E o \in Touched : SetAttr(o)
    \/ ModelSetChanged(3)
    \/ ModelMarkChanged(1, Markers)
    \/ \E o \in Touched : ModelResetChangedAt(o)
    \/ \E o \in Made : ModelRestoreOriginal(o)
    \/ \E o \in Made : ModelGetOriginalFieldValue(o)

SpecRestore == InitRestore /\ [][NextRestore]_vars

\* c = Something(id=i); p = Nested(sub=c)
InitCopy ==
    /\ \E i \in 1..MaxInt :
        heap = << NewObject("Something", "id" :> IntV(i)),
                  NewObject("Nested", "sub" :> Ref(1)) >>
    /\ last = NoCall
    /\ baseline = <<>>
    /\ clones = <<>>
    /\ blobs = <<>>
    /\ argument = None

\* the instance that is copied: the parent, with the child it holds
Copyable == {2}

\* the two ends of the copies taken so far: the source and its clones
Ends == Copyable \cup {clones[i].clone : i \in DOMAIN clones}

\* the history entry of a copy: how it was taken, of which instance, the
\* clone it returned and the clones made of nested instances on the way
Taken(op, o, deep, update, r) ==
    [op |-> op, source |-> o, clone |-> r.value.id, deep |-> deep,
     update |-> update, memo |-> r.memo]

\* the update= given to copy(): nothing, or one field and its new value,
\* which is not validated
Updates(h, cls) ==
    {EmptyMap}
    \cup UNION {{f :> v : v \in {None} \cup FieldValues(h, cls, f)} : f \in FieldSet(cls)}

\* copy.copy(obj)
ShallowCopy(o) ==
    /\ last = NoCall
    /\ clones = <<>>
    /\ LET r == __copy__(heap, o) IN
        /\ heap' = r.heap
        /\ clones' = <<Taken("__copy__", o, FALSE, EmptyMap, r)>>
        /\ Returns(Call("__copy__", o, <<>>, r.value, ""))
    /\ UNCHANGED <<baseline, blobs, argument>>

\* copy.deepcopy(obj)
DeepCopy(o) ==
    /\ last = NoCall
    /\ clones = <<>>
    /\ LET r == __deepcopy__(heap, o) IN
        /\ heap' = r.heap
        /\ clones' = <<Taken("__deepcopy__", o, TRUE, EmptyMap, r)>>
        /\ Returns(Call("__deepcopy__", o, <<>>, r.value, ""))
    /\ UNCHANGED <<baseline, blobs, argument>>

\* obj.copy(update=..., deep=...)
Copy(o) ==
    /\ last = NoCall
    /\ clones = <<>>
    /\ \E deep \in BOOLEAN, update \in Updates(heap, heap[o].cls) :
        LET r == copy(heap, o, update, deep) IN
        /\ heap' = r.heap
        /\ clones' = <<Taken("copy", o, deep, update, r)>>
        /\ Returns(Call("copy", o, <<>>, r.value, ""))
    /\ UNCHANGED <<baseline, blobs, argument>>

NextCopy ==
    \/ \E o \in DOMAIN heap : SetAttr(o)
    \/ \E o \in Ends : ModelSetChanged(o)
    \/ \E o \in Ends : ModelResetChanged(o)
    \/ \E o \in Ends : ModelMarkChanged(o, Markers)
    \/ \E o \in Ends : ModelUnmarkChanged(o, Markers)
    \/ \E o \in Copyable : ShallowCopy(o)
    \/ \E o \in Copyable : DeepCopy(o)
    \/ \E o \in Copyable : Copy(o)

SpecCopy == InitCopy /\ [][NextCopy]_vars

\* c = Something(id=i); p = Nested(sub=c), as the pickle tests build c
InitPickle ==
    /\ \E i \in 1..MaxInt :
        heap = << NewObject("Something", "id" :> IntV(i)),
                  NewObject("Nested", "sub" :> Ref(1)) >>
    /\ last = NoCall
    /\ baseline = <<>>
    /\ clones = <<>>
    /\ blobs = <<>>
    /\ argument = None

\* the instances the callers made and pickle
Pickled == 1..2

\* blob = pickle.dumps(obj); the history notes the instance, the heap of
\* that moment and what is taken out of the pickle later next to the pickle
Dumps(o) ==
    /\ last = NoCall
    /\ blobs = <<>>
    /\ blobs' = <<[source |-> o, at |-> heap, stripped |-> {},
                    pickled |-> dumps(heap, Ref(o))]>>
    /\ Returns(Call("dumps", o, <<>>, None, ""))
    /\ UNCHANGED <<heap, baseline, clones, argument>>

\* a pickle written without one of the three slots, as by a __getstate__
\* that leaves it out (SomethingWithBrokenPickleState leaves out all three)
StripState(key) ==
    /\ last = NoCall
    /\ blobs # <<>>
    /\ key \in DOMAIN blobs[1].pickled.state
    /\ blobs' = <<[blobs[1] EXCEPT !.pickled.state = Without(@, key),
                                   !.stripped = @ \cup {key}]>>
    /\ UNCHANGED <<heap, last, baseline, clones, argument>>

\* pickle.loads(blob): always the call under observation, its result in
\* last.val
Loads ==
    /\ last = NoCall
    /\ blobs # <<>>
    /\ LET r == loads(heap, blobs[1].pickled, EmptyMap) IN
        /\ heap' = r.heap
        /\ last' = Call("loads", blobs[1].source, <<>>, r.value, "")
    /\ UNCHANGED <<baseline, clones, blobs, argument>>

NextPickle ==
    \/ \E o \in Pickled : SetAttr(o)
    \/ ModelSetChanged(2)
    \/ \E o \in Pickled : ModelMarkChanged(o, Markers)
    \/ \E o \in Pickled : ModelResetChanged(o)
    \/ \E o \in Pickled : Dumps(o)
    \/ \E key \in StateKeys : StripState(key)
    \/ Loads

SpecPickle == InitPickle /\ [][NextPickle]_vars

\* c = Something(id=i); p = Nested(sub=c);
\* m = SomethingMultipleFields(id=j, foo=t)
InitExport ==
    /\ \E i \in 1..MaxInt, j \in 1..MaxInt, t \in Strs :
        heap = << NewObject("Something", "id" :> IntV(i)),
                  NewObject("Nested", "sub" :> Ref(1)),
                  NewObject("SomethingMultipleFields", ("id" :> IntV(j)) @@ ("foo" :> t)) >>
    /\ last = NoCall
    /\ baseline = <<>>
    /\ clones = <<>>
    /\ blobs = <<>>
    /\ argument = None

\* the include= the callers give: none, or a set of names, declared or not
Includes(cls) == {NoInclude} \cup {Include(names) : names \in SUBSET (FieldSet(cls) \cup {InvalidName})}

\* obj.model_dump(exclude_unchanged=..., include=...): always the call under
\* observation; last.val holds the arguments, the kwargs handed on to
\* pydantic and the names of the fields that come out
ModelDump(o) ==
    /\ last = NoCall
    /\ \E exclude_unchanged \in BOOLEAN, include \in Includes(heap[o].cls) :
        last' = Call("model_dump", o, <<>>,
                     [exclude_unchanged |-> exclude_unchanged,
                      include |-> include,
                      kwargs |-> get_changed_export_includes(heap, o, exclude_unchanged, include),
                      emitted |-> model_dump(heap, o, exclude_unchanged, include)],
                     "")
    /\ UNCHANGED <<heap, baseline, clones, blobs, argument>>

NextExport ==
    \/ \E o \in DOMAIN heap : SetAttr(o)
    \/ \E o \in DOMAIN heap : ModelMarkChanged(o, Markers)
    \/ \E o \in DOMAIN heap : ModelResetChanged(o)
    \/ \E o \in DOMAIN heap : ModelDump(o)

SpecExport == InitExport /\ [][NextExport]_vars

\* obj = SomethingValidated(id=i), or obj = SomethingPrivate(id=i)
InitAssign ==
    /\ \E cls \in {"SomethingValidated", "SomethingPrivate"}, i \in 1..MaxInt :
        heap = << NewObject(cls, "id" :> IntV(i)) >>
    /\ last = NoCall
    /\ baseline = <<>>
    /\ clones = <<>>
    /\ blobs = <<>>
    /\ argument = None

\* what callers assign when nothing holds them to the annotation: values
\* that are comparable and values that are not, alone and in a container
RawValues ==
    {None, StrV("a"), BytesV("x")} \cup Ints \cup {StrV("1"), StrV("2")}
    \cup {ListV(<<IntV(1)>>), ListV(<<BytesV("x")>>), DictV(<<Entry(BytesV("x"), IntV(1))>>)}

\* the names callers assign to: the fields, the private attributes, and a
\* name the class does not have
AttrNames(cls) == FieldSet(cls) \cup private_attributes(cls) \cup {InvalidName}

\* obj.name = value, for any name and any value
SetAttrAny(o) ==
    /\ last = NoCall
    /\ \E name \in AttrNames(heap[o].cls), value \in RawValues :
        LET r == setattr(heap, o, name, value) IN
            /\ heap' = [heap EXCEPT ![o] = r.obj]
            /\ Returns(Call("setattr", o, <<name>>, value, r.raised))
    /\ UNCHANGED <<baseline, clones, blobs, argument>>

NextAssign ==
    \/ \E o \in DOMAIN heap : SetAttrAny(o)
    \/ \E o \in DOMAIN heap : ModelMarkChanged(o, Markers)
    \/ \E o \in DOMAIN heap : ModelResetChanged(o)

SpecAssign == InitAssign /\ [][NextAssign]_vars

\* the annotations handed to the classifier: classes, the missing annotation,
\* generic aliases with and without their arguments, one inside the other
Classes ==
    {Ann("", n, <<>>) : n \in {"Something", "Unsupported", "int", "NoneType"}}

Missing == Ann("missing", "", <<>>)

Origins == {"List", "Set", "Tuple", "FrozenSet", "Dict", "Mapping", "Union", "UnionType"}

\* the argument tuples an alias over the annotations of A can carry
ArgsOver(A) ==
    {<<>>} \cup {<<a>> : a \in A} \cup {<<a, b>> : a \in Classes, b \in A}
           \cup {<<a, b>> : a \in A, b \in Classes}

Aliases(A) == {Ann(origin, "", args) : origin \in Origins, args \in ArgsOver(A)}

\* List, List[int], Dict[str, Something], Optional[List[Something]],
\* Union[List, Something], ...
Annotations ==
    Classes \cup {Missing} \cup Aliases(Classes \cup Aliases({Ann("", "Something", <<>>),
                                                            Ann("", "int", <<>>)}))

InitClassify ==
    /\ heap = <<>>
    /\ last = NoCall
    /\ baseline = <<>>
    /\ clones = <<>>
    /\ blobs = <<>>
    /\ argument \in Annotations

\* is_pydantic_change_detect_annotation(annotation)
Classify ==
    /\ last.op = ""
    /\ LET r == is_pydantic_change_detect_annotation_call(argument)
       IN  last' = Call("is_pydantic_change_detect_annotation", 0, <<>>, r.val, r.raised)
    /\ UNCHANGED <<heap, baseline, clones, blobs, argument>>

NextClassify == Classify

SpecClassify == InitClassify /\ [][NextClassify]_vars

\* the values handed to the comparability policy: one of every scalar kind,
\* bytes, the two instances, and containers of them one inside the other.
\* The members of a set and the keys of a dict are hashable values.
Kinds == {"float", "bool", "decimal", "datetime", "date", "time", "timedelta"}

Atoms ==
    {None, IntV(1), StrV("a"), BytesV("x"), Ref(1), Ref(2)}
        \cup {Scalar(kind, 1) : kind \in Kinds}

Members == {None, IntV(1), BytesV("x"), Ref(1), Ref(2)}

Hashables == {None, IntV(1), StrV("a"), BytesV("x")}

\* the sequences of at most two of the values of A
UpToTwo(A) == {<<>>} \cup {<<a>> : a \in A} \cup {<<a, b>> : a \in A, b \in A}

\* the same without a repeated value
UpToTwoDistinct(A) == {s \in UpToTwo(A) : Len(s) = 2 => s[1] # s[2]}

\* the containers whose members are drawn from A and whose set members and
\* keys are drawn from H
Containers(A, H) ==
    {ListV(s) : s \in UpToTwo(A)} \cup {TupleV(s) : s \in UpToTwo(A)}
        \cup {SetV(s) : s \in UpToTwoDistinct(H)}
        \cup {FrozenSetV(s) : s \in UpToTwoDistinct(H)}
        \cup {DictV(<<>>)} \cup {DictV(<<Entry(key, v)>>) : key \in H, v \in A}

Flat == Containers(Members, Hashables)

\* a container in a container: a list or tuple holding one, alone or after
\* a comparable value, a dict with one as its value or a tuple as its key,
\* a set of tuples
Nested2 ==
    {ListV(<<c>>) : c \in Flat} \cup {ListV(<<IntV(1), c>>) : c \in Flat}
        \cup {TupleV(<<c>>) : c \in Flat}
        \cup {DictV(<<Entry(StrV("a"), c)>>) : c \in Flat}
        \cup {DictV(<<Entry(TupleV(<<key>>), IntV(1))>>) : key \in Hashables}
        \cup {SetV(<<TupleV(<<key>>)>>) : key \in Hashables}

Inputs == Atoms \cup Flat \cup Nested2

\* one trackable instance and one instance of a pydantic model without the
\* mixin, for the values to refer to
InitComparable ==
    /\ heap = << NewObject("Something", "id" :> IntV(1)),
                 NewObject("Unsupported", "id" :> IntV(1)) >>
    /\ last = NoCall
    /\ baseline = <<>>
    /\ clones = <<>>
    /\ blobs = <<>>
    /\ argument \in Inputs

\* self._model_value_is_comparable_type(value)
IsComparable ==
    /\ last.op = ""
    /\ last' = Call("_model_value_is_comparable_type", 1, <<>>,
                    model_value_is_comparable_type(argument), "")
    /\ UNCHANGED <<heap, baseline, clones, blobs, argument>>

NextComparable == IsComparable

SpecComparable == InitComparable /\ [][NextComparable]_vars

\* The ways a parent holds two instances in sub: in a list, a tuple, a dict,
\* a dict one of whose keys reads like a path below the other, and a list
\* whose first element holds instance 1 itself
ElementHoldings ==
    {[cls |-> "NestedList", value |-> ListV(<<Ref(1), Ref(2)>>)],
     [cls |-> "NestedTuple", value |-> TupleV(<<Ref(1), Ref(2)>>)],
     [cls |-> "NestedDict", value |-> DictV(<<Entry(StrV("k"), Ref(1)), Entry(StrV("j"), Ref(2))>>)],
     [cls |-> "NestedDict", value |-> DictV(<<Entry(StrV("k"), Ref(1)), Entry(StrV("k.id"), Ref(2))>>)],
     [cls |-> "NestedList", value |-> ListV(<<Ref(3), Ref(2)>>)]}

\* a, b = Something(id=i), Something(id=j); n = Nested(sub=a); then the
\* parent around two of them
InitElements ==
    /\ \E i \in 1..MaxInt, hd \in ElementHoldings :
        heap = << NewObject("Something", "id" :> IntV(i)),
                  NewObject("Something", "id" :> IntV(1)),
                  NewObject("Nested", "sub" :> Ref(1)),
                  NewObject(hd.cls, "sub" :> hd.value) >>
    /\ last = NoCall
    /\ baseline = <<>>
    /\ clones = <<>>
    /\ blobs = <<>>
    /\ argument = None

\* the instances held, and the parent
Elements == 1..3

ElementsParent == 4

NextElements ==
    \/ \E o \in Elements : SetAttr(o)
    \/ \E o \in Elements : ModelMarkChanged(o, Markers)
    \/ \E o \in Elements \cup {ElementsParent} : ModelResetChanged(o)

SpecElements == InitElements /\ [][NextElements]_vars

\* pickle.loads(pickle.dumps(obj)), as the pickle tests write it: the
\* instance restored from its own unaltered state, the call under
\* observation with the restored instance in last.val
RoundTrip(o) ==
    /\ last = NoCall
    /\ LET r == loads(heap, dumps(heap, Ref(o)), EmptyMap) IN
        /\ heap' = r.heap
        /\ last' = Call("loads", o, <<>>, r.value, "")
    /\ UNCHANGED <<baseline, clones, blobs, argument>>

\* everything callers do to a validated instance and its copies
NextLifecycle ==
    \/ NextCopy
    \/ \E o \in Ends : RoundTrip(o)

SpecLifecycle == InitCopy /\ [][NextLifecycle]_vars

---------------------------------------------------------------------------
(* changedetect.py: the queries and the restore as walks over the nesting *)

MaxStack == 12      \* calls pending at once in one walk

\* a call of one of the four operations on one instance
Frame(op, o) == [op |-> op, obj |-> o]

QueryOps == {"model_has_changed", "model_changed_fields", "model_changed_fields_recursive"}

WalkOps == QueryOps \cup {"model_restore_original"}

RECURSIVE Flatten(_)
Flatten(ss) == IF ss = <<>> THEN <<>> ELSE Head(ss) \o Flatten(Tail(ss))

\* the instances a query looks at in one field: the value itself when it
\* is an instance, else the instances among the elements of a list, tuple
\* or dict under a classified annotation
Held(h, self, f) ==
    LET field_value == self.dict[f]
        inner == InnerValues(field_value)
        mixin(v) == IsMixinInstance(h, v)
    IN  IF IsMixinInstance(h, field_value) THEN <<field_value.id>>
        ELSE IF Truthy(field_value)
                /\ is_pydantic_change_detect_annotation(annotation(self.cls, f))
            THEN [i \in DOMAIN SelectSeq(inner, mixin) |-> SelectSeq(inner, mixin)[i].id]
        ELSE <<>>

\* the instances model_restore_value comes to below one value: through
\* lists and dicts to any depth, not through tuples
RECURSIVE RestoreHeld(_, _)
RestoreHeld(h, value) ==
    IF value.k = "list"
        THEN Flatten([i \in DOMAIN value.items |-> RestoreHeld(h, value.items[i])])
    ELSE IF value.k = "dict"
        THEN Flatten([i \in DOMAIN value.items |-> RestoreHeld(h, value.items[i].val)])
    ELSE IF IsMixinInstance(h, value) THEN <<value.id>>
    ELSE <<>>

\* the calls one call makes on instances: model_has_changed asks
\* model_changed_fields unless its own collections answer, and the others
\* ask model_has_changed of every instance held and descend into the changed
\* ones
Callees(h, frame) ==
    LET self == h[frame.obj]
        present(f) == f \in DOMAIN self.dict
        fields == SelectSeq(model_fields(self.cls), present)
        descend(op, c) ==
            <<Frame("model_has_changed", c)>>
                \o (IF model_has_changed(h, c) THEN <<Frame(op, c)>> ELSE <<>>)
        below(op, held) == Flatten([i \in DOMAIN held |-> descend(op, held[i])])
    IN  IF frame.op = "model_has_changed"
            THEN IF self.model_self_changed_fields # {} \/ self.model_changed_markers # {}
                 THEN <<>>
                 ELSE <<Frame("model_changed_fields", frame.obj)>>
        ELSE IF frame.op = "model_changed_fields"
            THEN Flatten([i \in DOMAIN fields |->
                    [j \in DOMAIN Held(h, self, fields[i]) |->
                        Frame("model_has_changed", Held(h, self, fields[i])[j])]])
        ELSE IF frame.op = "model_changed_fields_recursive"
            THEN Flatten([i \in DOMAIN fields |->
                    below("model_changed_fields_recursive", Held(h, self, fields[i]))])
        ELSE Flatten([i \in DOMAIN fields |->
                    below("model_restore_original", RestoreHeld(h, self.dict[fields[i]]))])

\* a query that collects into model_self_changed_fields itself instead of
\* a copy of it
visit_InPlace(h, frame) ==
    IF frame.op \in {"model_changed_fields", "model_changed_fields_recursive"}
    THEN [h EXCEPT ![frame.obj].model_self_changed_fields = model_changed_fields(h, frame.obj)]
    ELSE h

\* the instances after one call has run: changed_fields =
\* self.model_self_changed_fields.copy() and the reads of __dict__ leave
\* every instance as it is
visit(h, frame) == h

WalkHoldings ==
    ElementHoldings
    \cup {[cls |-> "NestedTuple", value |-> TupleV(<<Ref(3), Ref(2)>>)],
          [cls |-> "NestedDict", value |-> DictV(<<Entry(StrV("k"), Ref(3)), Entry(StrV("j"), Ref(2))>>)]}

\* a, b = Something(id=i), Something(id=1); n = Nested(sub=a); then the
\* parent around two of them
InitWalk ==
    /\ \E i \in 1..MaxInt, hd \in WalkHoldings :
        heap = << NewObject("Something", "id" :> IntV(i)),
                  NewObject("Something", "id" :> IntV(1)),
                  NewObject("Nested", "sub" :> Ref(1)),
                  NewObject(hd.cls, "sub" :> hd.value) >>
    /\ last = NoCall
    /\ baseline = <<>>
    /\ clones = <<>>
    /\ blobs = <<>>
    /\ argument = <<>>

\* obj.model_has_changed, obj.model_changed_fields,
\* obj.model_changed_fields_recursive or obj.model_restore_original() is
\* called: the call is pending
StartWalk(o) ==
    /\ last = NoCall
    /\ \E op \in WalkOps :
        /\ last' = Call(op, o, <<>>, None, "")
        /\ argument' = <<Frame(op, o)>>
    /\ UNCHANGED <<heap, baseline, clones, blobs>>

\* the pending call on top runs: the calls it makes become pending in its
\* place, and the restore that was asked for builds its instance once
\* nothing is pending
WalkStep ==
    /\ last.op \in WalkOps
    /\ argument # <<>>
    /\ argument' = Callees(heap, Head(argument)) \o Tail(argument)
    /\ Len(argument') <= MaxStack
    /\ IF argument' = <<>> /\ last.op = "model_restore_original"
       THEN LET r == model_restore_original(visit(heap, Head(argument)), last.obj) IN
            /\ heap' = r.heap
            /\ last' = [last EXCEPT !.val = r.value, !.raised = r.raised]
       ELSE /\ heap' = visit(heap, Head(argument))
            /\ last' = last
    /\ UNCHANGED <<baseline, clones, blobs>>

NextWalk ==
    \/ \E o \in Elements : SetAttr(o)
    \/ \E o \in Elements \cup {ElementsParent} : StartWalk(o)
    \/ WalkStep

\* ENABLED <<WalkStep>>_vars as the state predicate it is: a call is pending
\* and the calls it makes fit
CanStep ==
    /\ last.op \in WalkOps
    /\ argument # <<>>
    /\ Len(Callees(heap, Head(argument)) \o Tail(argument)) <= MaxStack

\* WF_vars(WalkStep) written out over CanStep: the interpreter runs a
\* pending call, a call of a property or a method is never left waiting
WalkFairness == []<>(~CanStep) \/ []<><<WalkStep>>_vars

SpecWalk == InitWalk /\ [][NextWalk]_vars /\ WalkFairness

---------------------------------------------------------------------------
(* The observed call *)

\* the instance the observed call was made on (or returned), now and before
Self == heap[last.obj]

SelfBefore == last.pre[last.obj]

\* the one name of an assignment
Name == last.names[1]

Constructed == last.op \in {"init", "model_construct"}

Assigned == last.op = "setattr" /\ last.raised = ""

\* a value is, or holds as an element, a trackable instance
HoldsTrackable(h, v) ==
    \/ IsMixinInstance(h, v)
    \/ \E i \in DOMAIN InnerValues(v) : IsMixinInstance(h, InnerValues(v)[i])

\* some trackable instance held by instance o reports a change
HoldsChanged(h, o) == \E c \in Children(h, o) : model_has_changed(h, c)

SameTracking(a, b) ==
    /\ a.model_original = b.model_original
    /\ a.model_self_changed_fields = b.model_self_changed_fields
    /\ a.model_changed_markers = b.model_changed_markers

---------------------------------------------------------------------------
(* C1 *)

\* C1 as stated: every instance just returned by cls(...) or by
\* cls.model_construct(...), whatever it was built from, has empty
\* model_original, model_self_changed_fields and model_changed_markers,
\* reports model_has_changed false and has no changed fields.
C1_FreshReportsNothing ==
    Constructed =>
        /\ IsClean(Self)
        /\ ~model_has_changed(heap, last.obj)
        /\ model_changed_fields(heap, last.obj) = {}

\* C1 as amended: the three collections of a fresh instance are empty, and it
\* reports no change when none of the trackable objects it was built from
\* reports one.
C1_FreshIsClean ==
    Constructed =>
        /\ IsClean(Self)
        /\ ~HoldsChanged(heap, last.obj) =>
                /\ ~model_has_changed(heap, last.obj)
                /\ model_changed_fields(heap, last.obj) = {}

\* an instance was just built from an existing trackable object
C1_Witness ==
    /\ Constructed
    /\ Children(heap, last.obj) # {}
    /\ ~HoldsChanged(heap, last.obj)
    /\ ~model_has_changed(heap, last.obj)

---------------------------------------------------------------------------
(* C2 *)

\* an assignment to a field of an instance with clean tracking state, of a
\* value that differs from the value the field holds
CleanDifferentWrite ==
    /\ Assigned
    /\ IsClean(SelfBefore)
    /\ Name \in DOMAIN SelfBefore.dict
    /\ ~PyEq(last.pre, SelfBefore.dict[Name], last.val)

\* C2: such an assignment puts the field in model_self_changed_fields and in
\* model_changed_fields, makes model_has_changed true, records the value the
\* field held before as model_original[f], and
\* model_get_original_field_value(f) returns that value.
C2_WriteRecordsChange ==
    CleanDifferentWrite =>
        /\ Name \in Self.model_self_changed_fields
        /\ Name \in model_changed_fields(heap, last.obj)
        /\ model_has_changed(heap, last.obj)
        /\ Name \in DOMAIN Self.model_original
        /\ Self.model_original[Name] = SelfBefore.dict[Name]
        /\ model_get_original_field_value(heap, last.obj, Name)
                = Result(heap, SelfBefore.dict[Name], "")

C2_Witness ==
    /\ CleanDifferentWrite
    /\ Self.dict[Name] = last.val
    /\ Self.model_original[Name] # Self.dict[Name]

---------------------------------------------------------------------------
(* C3 *)

\* an assignment whose prior value and stored value are both comparable and
\* equal
EqualWrite ==
    /\ Assigned
    /\ Name \in DOMAIN SelfBefore.dict
    /\ model_value_is_comparable_type(SelfBefore.dict[Name])
    /\ model_value_is_comparable_type(Self.dict[Name])
    /\ PyEq(heap, SelfBefore.dict[Name], Self.dict[Name])

\* a field not yet in model_original stays out of model_original and of
\* model_self_changed_fields
StaysUnrecorded ==
    Name \notin DOMAIN SelfBefore.model_original =>
        /\ Name \notin DOMAIN Self.model_original
        /\ Name \notin Self.model_self_changed_fields

\* what the instance reports is what it reported before the call
SameReport ==
    /\ model_changed_fields(heap, last.obj) = model_changed_fields(last.pre, last.obj)
    /\ model_has_changed(heap, last.obj) = model_has_changed(last.pre, last.obj)

\* C3 as stated: an assignment of an equal comparable value is no change for
\* the tracking: a field not yet in model_original enters neither
\* model_original nor model_self_changed_fields, the field stays out of
\* model_changed_fields and model_has_changed is what it was.
C3_EqualWriteChangesNothing ==
    EqualWrite =>
        /\ StaysUnrecorded
        /\ Name \notin model_changed_fields(last.pre, last.obj)
                => Name \notin model_changed_fields(heap, last.obj)
        /\ model_has_changed(heap, last.obj) = model_has_changed(last.pre, last.obj)

\* C3 as amended: such an assignment to a field that is not in model_original
\* leaves the three collections of the instance as they were, so the field
\* enters neither model_original nor model_self_changed_fields;
\* model_changed_fields and model_has_changed are what they were when the
\* stored value holds no trackable object.
C3_EqualWriteKeepsTracking ==
    (EqualWrite /\ Name \notin DOMAIN SelfBefore.model_original) =>
        /\ SameTracking(Self, SelfBefore)
        /\ StaysUnrecorded
        /\ ~HoldsTrackable(heap, Self.dict[Name]) => SameReport

\* an equal value was assigned to a field that has never been recorded
C3_Witness ==
    /\ EqualWrite
    /\ Name \notin DOMAIN SelfBefore.model_original
    /\ ~HoldsTrackable(heap, Self.dict[Name])
    /\ Name \notin model_changed_fields(heap, last.obj)

---------------------------------------------------------------------------
(* C4 *)

\* a call on an existing instance other than model_reset_changed
CallOtherThanReset ==
    last.op \in {"setattr", "model_set_changed", "model_mark_changed", "model_unmark_changed"}

\* C4: once model_original[f] has a value, no call other than
\* model_reset_changed changes it: neither an assignment to f nor
\* model_set_changed naming f, with or without original=...
C4_FirstWriteWins ==
    CallOtherThanReset =>
        \A f \in DOMAIN SelfBefore.model_original :
            /\ f \in DOMAIN Self.model_original
            /\ Self.model_original[f] = SelfBefore.model_original[f]

---------------------------------------------------------------------------
(* C5 *)

\* C5: an assignment never overwrites model_original[f]: an entry that is
\* there stays as it is, and an entry that appears holds the value the field
\* had before this assignment.
C5_LaterWritesKeepOriginal ==
    last.op = "setattr" =>
        /\ \A f \in DOMAIN SelfBefore.model_original :
                /\ f \in DOMAIN Self.model_original
                /\ Self.model_original[f] = SelfBefore.model_original[f]
        /\ \A f \in DOMAIN Self.model_original \ DOMAIN SelfBefore.model_original :
                /\ f = Name
                /\ Self.model_original[f] = SelfBefore.dict[f]

\* a later assignment to a field whose original is recorded and differs from
\* the value that the assignment replaces
C5_Witness ==
    /\ Assigned
    /\ Name \in DOMAIN SelfBefore.model_original
    /\ SelfBefore.model_original[Name] # SelfBefore.dict[Name]
    /\ Self.dict[Name] # SelfBefore.dict[Name]
    /\ Self.model_original[Name] = SelfBefore.model_original[Name]

---------------------------------------------------------------------------
(* C6 *)

WasReset == last.op = "model_reset_changed"

\* C6: model_reset_changed empties model_original, model_self_changed_fields
\* and model_changed_markers of the instance it is called on and changes
\* nothing else: its class and field values are as before, every other
\* instance (the nested children among them) is exactly as before, and a
\* second model_reset_changed leaves the instance as the first left it.
C6_ResetClearsOnlyTracking ==
    WasReset =>
        /\ IsClean(Self)
        /\ Self.cls = SelfBefore.cls
        /\ Self.dict = SelfBefore.dict
        /\ DOMAIN heap = DOMAIN last.pre
        /\ \A c \in DOMAIN heap \ {last.obj} : heap[c] = last.pre[c]
        /\ model_reset_changed(Self) = Self

\* a parent with entries in all three collections, holding a changed child,
\* was reset
C6_Witness ==
    /\ WasReset
    /\ SelfBefore.model_original # EmptyMap
    /\ SelfBefore.model_self_changed_fields # {}
    /\ SelfBefore.model_changed_markers # {}
    /\ \E c \in Children(heap, last.obj) : ~IsClean(heap[c])

---------------------------------------------------------------------------
(* C7 *)

\* C7: right after model_reset_changed the instance reports nothing as
\* changed, whatever state it was in: model_has_changed is false,
\* model_changed_fields and model_changed_fields_recursive are empty and
\* model_dump(exclude_unchanged=True) emits no field.
C7_ResetReportsNothing ==
    WasReset =>
        /\ ~model_has_changed(heap, last.obj)
        /\ model_changed_fields(heap, last.obj) = {}
        /\ model_changed_fields_recursive(heap, last.obj) = [raised |-> FALSE, value |-> {}]
        /\ model_dump(heap, last.obj, TRUE, NoInclude) = {}

---------------------------------------------------------------------------
(* C8 *)

\* C8: in every state and for every instance, model_has_changed is true
\* exactly when model_self_changed_fields is non-empty, or
\* model_changed_markers is non-empty, or model_changed_fields is non-empty.
C8_HasChangedIsTheDisjunction ==
    \A o \in DOMAIN heap :
        model_has_changed(heap, o) <=>
            \/ heap[o].model_self_changed_fields # {}
            \/ heap[o].model_changed_markers # {}
            \/ model_changed_fields(heap, o) # {}

\* an instance changed by a marker only, held by a parent with empty
\* collections that is changed through that child only
C8_Witness ==
    \E o \in DOMAIN heap, q \in DOMAIN heap :
        /\ heap[o].model_self_changed_fields = {}
        /\ heap[o].model_changed_markers # {}
        /\ model_changed_fields(heap, o) = {}
        /\ model_has_changed(heap, o)
        /\ IsClean(heap[q])
        /\ o \in Children(heap, q)
        /\ model_has_changed(heap, q)

---------------------------------------------------------------------------
(* C9 *)

Marked == last.op = "model_mark_changed"

Unmarked == last.op = "model_unmark_changed"

Marker == last.names[1]

\* C9: model_mark_changed(t) adds exactly t to model_changed_markers and
\* makes model_has_changed true, also with no field written;
\* model_unmark_changed(t) removes exactly t and changes nothing when t is
\* absent; model_has_changed_marker(t) is true exactly when t is in
\* model_changed_markers; both calls leave model_original,
\* model_self_changed_fields, the field values, every other instance and
\* model_changed_fields as they were.
C9_MarkersAreExact ==
    /\ Marked =>
        /\ Self.model_changed_markers = SelfBefore.model_changed_markers \cup {Marker}
        /\ model_has_changed(heap, last.obj)
    /\ Unmarked =>
        /\ Self.model_changed_markers = SelfBefore.model_changed_markers \ {Marker}
        /\ Marker \notin SelfBefore.model_changed_markers => heap = last.pre
    /\ (Marked \/ Unmarked) =>
        /\ Self.model_original = SelfBefore.model_original
        /\ Self.model_self_changed_fields = SelfBefore.model_self_changed_fields
        /\ Self.dict = SelfBefore.dict
        /\ \A c \in DOMAIN heap \ {last.obj} : heap[c] = last.pre[c]
        /\ model_changed_fields(heap, last.obj) = model_changed_fields(last.pre, last.obj)
    /\ \A o \in DOMAIN heap : \A t \in FamilyMarkers :
        model_has_changed_marker(heap[o], t) <=> t \in heap[o].model_changed_markers

\* a second marker was set on an instance that no field was written on
C9_Witness ==
    /\ Marked
    /\ SelfBefore.model_self_changed_fields = {}
    /\ SelfBefore.model_original = EmptyMap
    /\ SelfBefore.model_changed_markers # {}
    /\ Marker \notin SelfBefore.model_changed_markers
    /\ model_changed_fields(heap, last.obj) = {}
    /\ model_has_changed(heap, last.obj)

---------------------------------------------------------------------------
(* C10 *)

\* the observed call is an assignment to field c of the child that parent P
\* holds in its field s: the child has no other field recorded, and nothing
\* was called on P since its reset
ChildWritten(P, s, c) ==
    /\ Assigned
    /\ P # last.obj
    /\ s \in DOMAIN heap[P].dict
    /\ heap[P].dict[s] = Ref(last.obj)
    /\ Name = c
    /\ Self.model_self_changed_fields = {c}
    /\ IsClean(last.pre[P])

\* C10: when a field c of a child C that a parent P holds as its field s is
\* written, and nothing is written on P, then P.model_has_changed is true,
\* P.model_changed_fields is {s}, P.model_changed_fields_recursive is
\* {s, "s.c"}, P.model_self_changed_fields is empty and s is not in
\* P.model_original.
C10_ChildWriteShowsInParent ==
    Assigned =>
        \A P \in DOMAIN heap : \A s \in FieldSet(heap[P].cls) :
            ChildWritten(P, s, Name) =>
                /\ model_has_changed(heap, P)
                /\ model_changed_fields(heap, P) = {s}
                /\ model_changed_fields_recursive(heap, P)
                        = [raised |-> FALSE, value |-> {s, s \o "." \o Name}]
                /\ heap[P].model_self_changed_fields = {}
                /\ s \notin DOMAIN heap[P].model_original

\* the first write on the clean child of a parent that reported no change
C10_Witness ==
    \E P \in DOMAIN heap :
        /\ Assigned
        /\ ChildWritten(P, "sub", "id")
        /\ IsClean(SelfBefore)
        /\ ~model_has_changed(last.pre, P)
        /\ model_changed_fields_recursive(heap, P).value = {"sub", "sub.id"}

---------------------------------------------------------------------------
(* C11 *)

\* the value is a list, tuple or dict whose only element is instance c
SingleChild(v, c) ==
    /\ v.k \in {"list", "tuple", "dict"}
    /\ Len(v.items) = 1
    /\ InnerValues(v)[1] = Ref(c)

\* the path segment of that element: "0", or the key
SingleIndex(v) == IF v.k = "dict" THEN Format(v.items[1].key) ELSE "0"

\* the observed call is an assignment to id of the Something that parent P,
\* a NestedList, NestedTuple or NestedDict untouched since its reset, holds
\* as the only element of sub
ContainerChildWritten(P) ==
    /\ Assigned
    /\ P # last.obj
    /\ heap[P].cls \in {"NestedList", "NestedTuple", "NestedDict"}
    /\ "sub" \in DOMAIN heap[P].dict
    /\ SingleChild(heap[P].dict["sub"], last.obj)
    /\ Self.cls = "Something"
    /\ Name = "id"
    /\ Self.model_self_changed_fields = {"id"}
    /\ IsClean(last.pre[P])

\* C11: when id of the single child that a parent holds in its list, tuple
\* or dict field sub is written, the parent's model_changed_fields is {"sub"},
\* its model_changed_fields_recursive is {"sub", "sub.0", "sub.0.id"} (list,
\* tuple) or {"sub", "sub.k", "sub.k.id"} (dict with key k), and its
\* model_self_changed_fields is empty.
C11_ContainerChildShowsInParent ==
    \A P \in DOMAIN heap :
        ContainerChildWritten(P) =>
            LET at == "sub." \o SingleIndex(heap[P].dict["sub"]) IN
            /\ model_changed_fields(heap, P) = {"sub"}
            /\ model_changed_fields_recursive(heap, P)
                    = [raised |-> FALSE, value |-> {"sub", at, at \o ".id"}]
            /\ heap[P].model_self_changed_fields = {}

\* the first write on the clean child that a NestedList holds at index 0
C11_Witness ==
    \E P \in DOMAIN heap :
        /\ ContainerChildWritten(P)
        /\ heap[P].dict["sub"].k = "list"
        /\ ~model_has_changed(last.pre, P)
        /\ model_changed_fields_recursive(heap, P).value = {"sub", "sub.0", "sub.0.id"}

---------------------------------------------------------------------------
(* C12 *)

\* instance c is the value, or is held at any depth inside it
RECURSIVE Inside(_, _)
Inside(v, c) ==
    \/ v = Ref(c)
    \/ \E i \in DOMAIN InnerValues(v) : Inside(InnerValues(v)[i], c)

\* the observed call assigned a field of an instance nested in field s of
\* parent P, which reported no change before
NestedWritten(P, s) ==
    /\ last.op \in {"setattr", "plain_setattr"}
    /\ last.raised = ""
    /\ P # last.obj
    /\ P \in Mixins(heap)
    /\ s \in DOMAIN heap[P].dict
    /\ Inside(heap[P].dict[s], last.obj)
    /\ IsClean(last.pre[P])
    /\ ~model_has_changed(last.pre, P)

Classified(P, s) == is_pydantic_change_detect_annotation(annotation(heap[P].cls, s))

ReportsNothing(P) ==
    /\ ~model_has_changed(heap, P)
    /\ heap[P].model_self_changed_fields = {}
    /\ model_changed_fields(heap, P) = {}
    /\ model_changed_fields_recursive(heap, P) = [raised |-> FALSE, value |-> {}]

\* C12: when the annotation of a parent field is not classified as holding a
\* trackable type, or its value is not a shape the aggregator recognises, an
\* assignment on the instance nested in it does not show in the parent:
\* model_has_changed stays false and the three reports stay empty.
C12_UnsupportedShapeIsSilent ==
    \A P \in DOMAIN heap : \A s \in FieldSet(heap[P].cls) :
        (/\ NestedWritten(P, s)
         /\ \/ ~Classified(P, s)
            \/ ~HoldsTrackable(heap, heap[P].dict[s]))
        => ReportsNothing(P)

\* C12 as amended: the assignment does not show in the parent when the value
\* of the field is not itself a trackable instance and, besides, the
\* annotation is not classified or no element of the value is a trackable
\* instance.
C12_UnscannedValueIsSilent ==
    \A P \in DOMAIN heap : \A s \in FieldSet(heap[P].cls) :
        (/\ NestedWritten(P, s)
         /\ ~IsMixinInstance(heap, heap[P].dict[s])
         /\ \/ ~Classified(P, s)
            \/ ~HoldsTrackable(heap, heap[P].dict[s]))
        => ReportsNothing(P)

\* a recorded write on a Something that its parent holds out of the
\* aggregator's sight
C12_Witness ==
    \E P \in DOMAIN heap : \E s \in FieldSet(heap[P].cls) :
        /\ NestedWritten(P, s)
        /\ ~IsMixinInstance(heap, heap[P].dict[s])
        /\ \/ ~Classified(P, s)
           \/ ~HoldsTrackable(heap, heap[P].dict[s])
        /\ last.op = "setattr"
        /\ model_has_changed(heap, last.obj)
        /\ ReportsNothing(P)

---------------------------------------------------------------------------
(* C13 *)

SetChanged == last.op = "model_set_changed"

\* the original= of the observed model_set_changed
Override == last.val

---------------------------------------------------------------------------
(* C14 *)

Rejected == SetChanged /\ last.raised \in {"RuntimeError", "AttributeError"}

\* C14: model_set_changed raises RuntimeError when more than one name comes
\* with original=, and AttributeError when a name is not a declared field
\* (RuntimeError when both apply); either error leaves every instance as it
\* was, also when other names of the call are declared fields.
C14_SetChangedRejectsBeforeUpdate ==
    SetChanged =>
        LET many == Override # NO_VALUE /\ Len(last.names) > 1
            unknown == \E i \in DOMAIN last.names : last.names[i] \notin FieldSet(Self.cls)
        IN  /\ many => last.raised = "RuntimeError"
            /\ (unknown /\ ~many) => last.raised = "AttributeError"
            /\ last.raised = "RuntimeError" => many
            /\ last.raised = "AttributeError" => unknown
            /\ Rejected => heap = last.pre

\* a call naming a declared field and an undeclared one was rejected, the
\* declared field staying unmarked
C14_Witness ==
    /\ SetChanged
    /\ last.raised = "AttributeError"
    /\ last.names = <<"id", InvalidName>>
    /\ "id" \in DOMAIN Self.dict
    /\ "id" \notin Self.model_self_changed_fields
    /\ heap = last.pre

---------------------------------------------------------------------------
(* C15 *)

GotOriginal == last.op = "model_get_original_field_value"

\* no instance that existed before the observed call was modified by it
SourceUntouched == \A o \in DOMAIN last.pre : heap[o] = last.pre[o]

\* the instance is one the observed call created
IsNew(v) == v.k = "ref" /\ v.id \notin DOMAIN last.pre

\* C15: model_get_original_field_value(name) raises AttributeError when name
\* is not a declared field; otherwise it returns model_original[name] when
\* that exists and model_restore_value of the current value when not, which
\* for a changed child held directly is a new instance equal to what the
\* child was at its last reset; no existing instance is modified.
C15_OriginalFieldValue ==
    GotOriginal =>
        /\ SourceUntouched
        /\ Name \notin FieldSet(SelfBefore.cls) =>
                last.raised = "AttributeError" /\ heap = last.pre
        /\ Name \in FieldSet(SelfBefore.cls) =>
            /\ last.raised = ""
            /\ Name \in DOMAIN SelfBefore.model_original =>
                    last.val = SelfBefore.model_original[Name] /\ heap = last.pre
            /\ Name \notin DOMAIN SelfBefore.model_original =>
                LET current == SelfBefore.dict[Name]
                    r == model_restore_value(last.pre, current)
                IN  /\ last.val = r.value
                    /\ heap = r.heap
                    /\ (IsMixinInstance(last.pre, current)
                            /\ model_has_changed(last.pre, current.id)) =>
                        /\ IsNew(last.val)
                        /\ DeepValue(heap, last.val) = baseline[current.id]
                    /\ ~HoldsChanged(last.pre, last.obj) => last.val = current

\* the original of a field the parent never wrote, holding a child whose id
\* was written: a new child with the id from before the write
C15_Witness ==
    /\ GotOriginal
    /\ last.raised = ""
    /\ SelfBefore.cls = "Nested"
    /\ IsClean(SelfBefore)
    /\ IsNew(last.val)
    /\ "id" \in DOMAIN heap[SelfBefore.dict["sub"].id].model_original
    /\ DeepValue(heap, last.val) # DeepValue(heap, SelfBefore.dict["sub"])
    /\ DeepValue(heap, last.val) = baseline[SelfBefore.dict["sub"].id]

---------------------------------------------------------------------------
(* C16 *)

RestoreCalled == last.op = "model_restore_original"

\* the instance model_restore_original returned
Restored == heap[last.val.id]

\* C16: model_restore_original returns a new instance of the same class, not
\* the source, in which every field of model_self_changed_fields has the
\* value recorded in model_original; the source is not mutated: its field
\* values, its three collections and model_has_changed are as before, and so
\* is every other instance that existed.
C16_RestoreLeavesSource ==
    RestoreCalled =>
        /\ SourceUntouched
        /\ model_has_changed(heap, last.obj) = model_has_changed(last.pre, last.obj)
        /\ last.raised = "" =>
            /\ IsNew(last.val)
            /\ last.val.id # last.obj
            /\ Restored.cls = SelfBefore.cls
            /\ \A f \in SelfBefore.model_self_changed_fields :
                /\ f \in DOMAIN SelfBefore.model_original
                /\ Restored.dict[f] = SelfBefore.model_original[f]

\* id written from one value to another: the result has the first, the
\* source still has the second and reports the change
C16_Witness ==
    /\ RestoreCalled
    /\ last.raised = ""
    /\ SelfBefore.cls = "Something"
    /\ SelfBefore.model_self_changed_fields = {"id"}
    /\ SelfBefore.model_original["id"] # SelfBefore.dict["id"]
    /\ Restored.dict["id"] = SelfBefore.model_original["id"]
    /\ Self.dict["id"] = SelfBefore.dict["id"]
    /\ model_has_changed(heap, last.obj)

---------------------------------------------------------------------------
(* C17 *)

\* an instance with its recorded originals put back over its field values
OriginalState(h, c) ==
    LET merged == h[c].model_original @@ h[c].dict IN
    [k |-> "model", cls |-> h[c].cls,
     fields |-> [f \in DOMAIN merged |-> DeepValue(h, merged[f])]]

\* v is a changed trackable instance before the observed call
ChangedChild(v) == IsMixinInstance(last.pre, v) /\ model_has_changed(last.pre, v.id)

\* got is a new instance holding the original values of the changed child
RestoredChild(got, child) ==
    /\ IsNew(got)
    /\ DeepValue(heap, got) = OriginalState(last.pre, child.id)

\* C17: model_restore_original of a parent that holds a changed child
\* directly, in a list or in a dict returns an instance that holds at the
\* same position a child with the original values of its fields; the
\* source's child keeps its values, the keys of a dict and the order of a
\* list are kept; a child that an assignment on the parent replaced is
\* restored to the child held before.
C17_RestoreRestoresNested ==
    (/\ RestoreCalled
     /\ last.raised = ""
     /\ SelfBefore.cls \in {"Nested", "NestedList", "NestedDict"}) =>
        LET held == SelfBefore.dict["sub"]
            got == Restored.dict["sub"]
        IN  /\ SourceUntouched
            /\ ChangedChild(held) => RestoredChild(got, held)
            /\ (held.k \in {"list", "dict"} /\ \E i \in DOMAIN held.items :
                                                ChangedChild(InnerValues(held)[i])) =>
                /\ got.k = held.k
                /\ Len(got.items) = Len(held.items)
                /\ \A i \in DOMAIN held.items :
                    /\ held.k = "dict" => got.items[i].key = held.items[i].key
                    /\ IF ChangedChild(InnerValues(held)[i])
                       THEN RestoredChild(InnerValues(got)[i], InnerValues(held)[i])
                       ELSE InnerValues(got)[i] = InnerValues(held)[i]
            /\ "sub" \in DOMAIN SelfBefore.model_original =>
                    got = SelfBefore.model_original["sub"]

---------------------------------------------------------------------------
(* C18 *)

\* C18: the instance model_restore_original returns is the source as it was
\* at its last reset: its model_has_changed is false and its field values,
\* through the children held directly, in lists, tuples and dicts, are those
\* the source had then, whatever was assigned, marked or changed in a child
\* since.
C18_RestoreIsStateAtReset ==
    (RestoreCalled /\ last.raised = "") =>
        /\ ~model_has_changed(heap, last.val.id)
        /\ DeepValue(heap, last.val) = baseline[last.obj]

---------------------------------------------------------------------------
(* C19 *)

CopyOps == {"__copy__", "__deepcopy__", "copy"}

\* the observed call is a copy; its result is the clone
Cloned == last.op \in CopyOps

\* the copy taken earlier in the run
TheCopy == clones[1]

\* the observed call is one of the calls that change tracking state
Changing ==
    last.op \in {"setattr", "model_set_changed", "model_reset_changed",
                 "model_mark_changed", "model_unmark_changed"}

\* the observed call came after a copy and was made on instance o
LaterCallOn(o) == clones # <<>> /\ Changing /\ last.obj = o

\* the collections of a clone and its source are held apart: a later
\* changing call on one leaves the three collections of the other as they were
HeldApart ==
    (clones # <<>> /\ Changing) =>
        /\ last.obj = TheCopy.clone =>
                SameTracking(heap[TheCopy.source], last.pre[TheCopy.source])
        /\ last.obj = TheCopy.source =>
                SameTracking(heap[TheCopy.clone], last.pre[TheCopy.clone])

---------------------------------------------------------------------------
(* C20 *)

\* the observed call is an assignment made after a copy, to a field of the
\* clone or of a child reached through the clone
WrittenThroughClone ==
    /\ clones # <<>>
    /\ last.op = "setattr"
    /\ last.obj \in Reach(last.pre, TheCopy.clone)

\* the three queries answer on instance o as they did before the call
SameAnswers(o) ==
    /\ model_has_changed(heap, o) = model_has_changed(last.pre, o)
    /\ model_changed_fields(heap, o) = model_changed_fields(last.pre, o)
    /\ model_changed_fields_recursive(heap, o) = model_changed_fields_recursive(last.pre, o)

\* C20 (as stated): after a shallow or a deep copy, an assignment to a field
\* of the clone, or to a field of a nested child reached through the clone,
\* leaves model_has_changed, model_changed_fields and
\* model_changed_fields_recursive of the source as they were.
C20_CloneWritesLeaveSource ==
    WrittenThroughClone => SameAnswers(TheCopy.source)

\* C20 (amended): every instance a deep copy puts under the clone is a new
\* one, none of them held by the source; and after any copy an assignment to
\* a field of the clone, or of a child reached through the clone that the
\* source does not reach as well, leaves model_has_changed,
\* model_changed_fields and model_changed_fields_recursive of the source as
\* they were.
C20_UnsharedWritesLeaveSource ==
    /\ (Cloned /\ TheCopy.deep) =>
            Reach(heap, last.val.id) \cap DOMAIN last.pre = {}
    /\ (WrittenThroughClone /\ last.obj \notin Reach(last.pre, TheCopy.source)) =>
            SameAnswers(TheCopy.source)

\* C20 witness: after a deep copy of a clean parent, an assignment to the
\* child held by the clone made the clone report a change, the source still
\* reporting none.
C20_Witness ==
    /\ WrittenThroughClone
    /\ TheCopy.deep
    /\ last.obj # TheCopy.clone
    /\ last.obj \notin Reach(last.pre, TheCopy.source)
    /\ last.raised = ""
    /\ ~model_has_changed(last.pre, TheCopy.clone)
    /\ model_has_changed(heap, TheCopy.clone)
    /\ ~model_has_changed(heap, TheCopy.source)

---------------------------------------------------------------------------
(* C21 *)

\* the three collections of an instance by value: the values of
\* model_original all the way down
TrackingValue(h, self) ==
    [model_original |->
        [f \in DOMAIN self.model_original |-> DeepValue(h, self.model_original[f])],
     model_self_changed_fields |-> self.model_self_changed_fields,
     model_changed_markers |-> self.model_changed_markers]

\* the observed call is pickle.loads; its result is the restored instance
Loaded == last.op = "loads"

\* the pickle held, and the instance it was taken of as it was then
Blob == blobs[1]

BlobSource == Blob.at[Blob.source]

\* nothing was taken out of the pickle
Whole == Blob.stripped = {}

\* C21: pickle.loads(pickle.dumps(obj)) is a new instance whose
\* model_original, model_self_changed_fields and model_changed_markers equal
\* by value those obj had when it was pickled, so that its model_has_changed
\* and model_changed_fields are those of obj at that moment; what was done
\* to obj after the pickle was taken does not show in the pickle or in the
\* instance loaded from it, and loading leaves the existing instances alone.
C21_PickleKeepsState ==
    /\ (blobs # <<>> /\ Whole) => Blob.pickled = dumps(Blob.at, Ref(Blob.source))
    /\ (Loaded /\ Whole) =>
        /\ last.val.id \notin DOMAIN last.pre
        /\ SourceUntouched
        /\ TrackingValue(heap, heap[last.val.id]) = TrackingValue(Blob.at, BlobSource)
        /\ model_has_changed(heap, last.val.id) = model_has_changed(Blob.at, Blob.source)
        /\ model_changed_fields(heap, last.val.id) = model_changed_fields(Blob.at, Blob.source)

\* C21 witness: an instance with an original value and a marker was pickled
\* and changed afterwards; the instance loaded from the pickle reports the
\* change of then and differs from the source of now.
C21_Witness ==
    /\ Loaded
    /\ Whole
    /\ BlobSource.model_original # EmptyMap
    /\ BlobSource.model_changed_markers # {}
    /\ ~SameTracking(heap[Blob.source], BlobSource)
    /\ model_has_changed(heap, last.val.id)
    /\ heap[last.val.id].model_original # EmptyMap

---------------------------------------------------------------------------
(* C22 *)

\* the instance pickle.loads returned
Unpickled == heap[last.val.id]

\* each slot taken out of the pickle is empty in the loaded instance, each
\* slot left in is as the source had it when it was pickled
SlotsOneByOne ==
    LET was == TrackingValue(Blob.at, BlobSource)
        now == TrackingValue(heap, Unpickled)
    IN  /\ now.model_original =
                IF "model_original" \in Blob.stripped THEN EmptyMap ELSE was.model_original
        /\ now.model_self_changed_fields =
                IF "model_self_changed_fields" \in Blob.stripped
                THEN {} ELSE was.model_self_changed_fields
        /\ now.model_changed_markers =
                IF "model_changed_markers" \in Blob.stripped
                THEN {} ELSE was.model_changed_markers

\* C22 (as stated): loading a pickle that lacks any of the three slots does
\* not fail; each missing slot is empty in the loaded instance whatever the
\* others are, and when all three are missing the loaded instance has
\* model_has_changed false and model_changed_fields empty, even if the
\* source had changes.
C22_MissingStateLoadsUnchanged ==
    (Loaded /\ ~Whole) =>
        /\ last.raised = ""
        /\ SlotsOneByOne
        /\ Blob.stripped = StateKeys =>
            /\ ~model_has_changed(heap, last.val.id)
            /\ model_changed_fields(heap, last.val.id) = {}

\* C22 (amended): loading a pickle that lacks any of the three slots of the
\* pickled instance does not fail; each missing slot is empty in the loaded
\* instance whatever the others are, and when all three are missing the
\* loaded instance is clean itself: its model_changed_fields names exactly
\* the fields in which it holds a changed child, and its model_has_changed
\* is true exactly when there is one.
C22_MissingSlotsLoadEmpty ==
    (Loaded /\ ~Whole) =>
        /\ last.raised = ""
        /\ SlotsOneByOne
        /\ Blob.stripped = StateKeys =>
            /\ IsClean(Unpickled)
            /\ model_has_changed(heap, last.val.id) = HoldsChanged(heap, last.val.id)
            /\ model_changed_fields(heap, last.val.id) =
                    {f \in DOMAIN Unpickled.dict :
                        IsMixinInstance(heap, Unpickled.dict[f])
                        /\ model_has_changed(heap, Unpickled.dict[f].id)}

\* C22 witness: the pickle of an instance with an original value and a
\* marker lost its model_original only; the loaded instance has none but
\* kept the changed field and the marker.
C22_Witness ==
    /\ Loaded
    /\ Blob.stripped = {"model_original"}
    /\ BlobSource.model_original # EmptyMap
    /\ Unpickled.model_original = EmptyMap
    /\ Unpickled.model_self_changed_fields # {}
    /\ Unpickled.model_changed_markers # {}

---------------------------------------------------------------------------
(* C23 *)

\* the observed call is model_dump; its arguments and what came of them
Dumped == last.op = "model_dump"

Given == last.val.include

Handed == last.val.kwargs

\* C23: with exclude_unchanged the include handed to pydantic is
\* model_changed_fields cut down to the names of the caller's include, or
\* model_changed_fields itself when the caller gave none, so that an
\* instance without changes, an empty include and an include naming no
\* changed field all emit nothing; without exclude_unchanged the caller's
\* include is handed on as it is.
C23_ExportIncludesAreIntersected ==
    Dumped =>
        LET changed == model_changed_fields(heap, last.obj) IN
        IF last.val.exclude_unchanged
        THEN /\ Handed.given
             /\ Handed.names = IF Given.given THEN changed \cap Given.names ELSE changed
             /\ last.val.emitted = Handed.names \cap DOMAIN Self.dict
             /\ changed = {} => last.val.emitted = {}
             /\ (Given.given /\ Given.names \cap changed = {}) => last.val.emitted = {}
        ELSE /\ Handed = Given
             /\ last.val.emitted =
                    IF Given.given THEN Given.names \cap DOMAIN Self.dict ELSE DOMAIN Self.dict

\* C23 witness: an instance with two fields, one of them changed, is dumped
\* with exclude_unchanged and an include naming both: only the changed one
\* comes out.
C23_Witness ==
    /\ Dumped
    /\ last.val.exclude_unchanged
    /\ Given.given
    /\ Given.names = {"id", "foo"}
    /\ Cardinality(last.val.emitted) = 1
    /\ model_changed_fields(heap, last.obj) = last.val.emitted

---------------------------------------------------------------------------
(* C24 *)

\* the observed call is an assignment that pydantic refused
Refused == last.op = "setattr" /\ last.raised \in {"ValidationError", "ValueError"}

\* C24: when pydantic refuses an assignment (the value does not validate
\* where validate_assignment is set, or the name is no field), the error
\* reaches the caller and nothing is kept of the attempt: model_original,
\* model_self_changed_fields, model_changed_markers and the stored values
\* of the instance are as they were before.
C24_RefusedWriteChangesNothing ==
    Refused =>
        /\ SameTracking(Self, SelfBefore)
        /\ Self.dict = SelfBefore.dict
        /\ heap = last.pre

\* C24 witness: an assignment to a field that had no original value recorded
\* yet was refused for its value; the field is still unrecorded.
C24_Witness ==
    /\ Refused
    /\ last.raised = "ValidationError"
    /\ validate_assignment(Self.cls)
    /\ Name \in FieldSet(Self.cls)
    /\ Name \notin DOMAIN Self.model_original
    /\ Name \notin Self.model_self_changed_fields
    /\ Self.model_changed_markers # {}

---------------------------------------------------------------------------
(* C25 *)

\* the observed call is an assignment to a private attribute
PrivateWritten ==
    /\ last.op = "setattr"
    /\ Name \in private_attributes(SelfBefore.cls)

\* C25: an assignment to a private attribute stores the value and goes
\* around the tracking: model_original, model_self_changed_fields,
\* model_changed_markers, the fields of the instance and its
\* model_has_changed and model_changed_fields are as they were before.
C25_PrivateWriteIsUntracked ==
    PrivateWritten =>
        /\ last.raised = ""
        /\ Self.pydantic_private[Name] = last.val
        /\ SameTracking(Self, SelfBefore)
        /\ Self.dict = SelfBefore.dict
        /\ model_has_changed(heap, last.obj) = model_has_changed(last.pre, last.obj)
        /\ model_changed_fields(heap, last.obj) = model_changed_fields(last.pre, last.obj)

\* C25 witness: a new value was stored in the private attribute of an
\* instance that reports no change, before and after.
C25_Witness ==
    /\ PrivateWritten
    /\ Self.pydantic_private[Name] # SelfBefore.pydantic_private[Name]
    /\ ~model_has_changed(heap, last.obj)

---------------------------------------------------------------------------
(* C26 *)

\* an instance that lacks some of the fields of its class
Partial(self) == DOMAIN self.dict # FieldSet(self.cls)

\* C26: an instance made by model_construct from some of the fields only
\* has model_has_changed false and answers model_changed_fields and
\* model_changed_fields_recursive; an assignment to any field of it
\* succeeds and makes model_has_changed true.
C26_PartialInstanceWorks ==
    /\ (last.op = "model_construct" /\ Partial(Self)) =>
        /\ ~model_has_changed(heap, last.obj)
        /\ model_changed_fields(heap, last.obj) = {}
        /\ ~model_changed_fields_recursive(heap, last.obj).raised
    /\ (last.op = "setattr" /\ Partial(SelfBefore) /\ Name \in FieldSet(SelfBefore.cls)) =>
        /\ last.raised = ""
        /\ model_has_changed(heap, last.obj)

---------------------------------------------------------------------------
(* C27 *)

\* the annotation is a list, set or tuple annotation with a first type
\* argument, a mapping annotation with a second one, a union or optional
IsSequenceAnnotation(a) == a.origin \in {"List", "Set", "Tuple"} /\ Len(a.args) >= 1

IsMappingAnnotation(a) == a.origin \in {"Dict", "Mapping"} /\ Len(a.args) >= 2

IsUnionAnnotation(a) == a.origin \in {"Union", "UnionType"}

\* what the classification is stated to be
RECURSIVE ContainsTrackable(_)
ContainsTrackable(a) ==
    \/ a.origin = "" /\ a.name \in MixinClasses
    \/ IsSequenceAnnotation(a) /\ ContainsTrackable(a.args[1])
    \/ IsMappingAnnotation(a) /\ ContainsTrackable(a.args[2])
    \/ IsUnionAnnotation(a) /\ \E i \in DOMAIN a.args : ContainsTrackable(a.args[i])

Classifying == last.op = "is_pydantic_change_detect_annotation"

\* C27: the classifier returns for every annotation, true exactly when the
\* annotation is a trackable class, a list, set or tuple annotation whose
\* first type argument classifies true, a mapping annotation whose second
\* type argument classifies true, or a union or optional with a member
\* that classifies true, and false for a missing annotation and for every
\* other annotation.
C27_ClassifiesAsStated ==
    Classifying =>
        /\ last.raised = ""
        /\ last.val = ContainsTrackable(argument)

---------------------------------------------------------------------------
(* C28 *)

\* the instance o has every changed field and every original it had
\* before the call
KeepsFields(o) ==
    /\ last.pre[o].model_self_changed_fields \subseteq heap[o].model_self_changed_fields
    /\ DOMAIN last.pre[o].model_original \subseteq DOMAIN heap[o].model_original

KeepsMarkers(o) ==
    last.pre[o].model_changed_markers \subseteq heap[o].model_changed_markers

\* the call was op on the instance o
CallOn(op, o) == last.op = op /\ last.obj = o

\* C28: no call but a reset of the instance removes a name from its
\* model_self_changed_fields or a key from its model_original, a write that
\* sets a field back to its original value included, and no call but a
\* reset or an unmark of the instance removes one of its markers.
C28_CollectionsOnlyGrow ==
    last.op # "" =>
        \A o \in DOMAIN last.pre :
            /\ ~CallOn("model_reset_changed", o) => KeepsFields(o)
            /\ (~CallOn("model_reset_changed", o) /\ ~CallOn("model_unmark_changed", o))
                    => KeepsMarkers(o)

\* C28 witness: a field recorded as changed was set back to the original
\* recorded for it and is still recorded
C28_Witness ==
    /\ last.op = "setattr"
    /\ last.raised = ""
    /\ Name \in SelfBefore.model_self_changed_fields
    /\ Name \in DOMAIN SelfBefore.model_original
    /\ SelfBefore.dict[Name] # last.val
    /\ SelfBefore.model_original[Name] = last.val
    /\ Name \in Self.model_self_changed_fields
    /\ Self.model_original[Name] = last.val

---------------------------------------------------------------------------
(* C29 *)

\* the call stored a value in a declared field
FieldWritten ==
    /\ last.op = "setattr"
    /\ last.raised = ""
    /\ Name \in FieldSet(Self.cls)

\* the value the field held before the write, or the one it holds now, is
\* not comparable
Incomparable ==
    \/ ~model_value_is_comparable_type(SelfBefore.dict[Name])
    \/ ~model_value_is_comparable_type(Self.dict[Name])

\* C29: a write to a declared field whose prior value or stored new value
\* is not comparable is recorded whatever the values are: the field is in
\* model_self_changed_fields afterwards, and model_original has the prior
\* value for it unless it had an original already.
C29_IncomparableWriteIsRecorded ==
    (FieldWritten /\ Incomparable) =>
        /\ Name \in Self.model_self_changed_fields
        /\ Name \in DOMAIN Self.model_original
        /\ Name \notin DOMAIN SelfBefore.model_original =>
                Self.model_original[Name] = SelfBefore.dict[Name]
        /\ Name \in DOMAIN SelfBefore.model_original =>
                Self.model_original[Name] = SelfBefore.model_original[Name]

\* C29 witness: an unchanged instance whose field held a value that is not
\* comparable was assigned an equal value, and the write is recorded
C29_Witness ==
    /\ FieldWritten
    /\ ~model_value_is_comparable_type(SelfBefore.dict[Name])
    /\ SelfBefore.dict[Name] = Self.dict[Name]
    /\ SelfBefore.model_self_changed_fields = {}
    /\ Self.model_self_changed_fields = {Name}
    /\ Self.model_original[Name] = SelfBefore.dict[Name]

---------------------------------------------------------------------------
(* C30 *)

\* text, integer, floating-point, boolean, decimal, date, time, datetime
\* and duration
Whitelisted ==
    {"str", "int", "float", "bool", "decimal", "date", "time", "datetime", "timedelta"}

\* comparable as stated, trackable(v) saying which instances count
RECURSIVE ComparableWhere(_, _)
ComparableWhere(trackable, v) ==
    \/ v = None
    \/ v.k \in Whitelisted
    \/ v.k = "ref" /\ v \in trackable
    \/ /\ v.k \in {"list", "tuple", "set"}
       /\ \A i \in DOMAIN v.items : ComparableWhere(trackable, v.items[i])
    \/ /\ v.k = "dict"
       /\ \A i \in DOMAIN v.items :
            /\ ComparableWhere(trackable, v.items[i].key)
            /\ ComparableWhere(trackable, v.items[i].val)

\* the instances of the classes with the mixin, and of any pydantic model
Trackables == {Ref(o) : o \in {x \in DOMAIN heap : heap[x].cls \in MixinClasses}}

Models == {Ref(o) : o \in DOMAIN heap}

Judged == last.op = "_model_value_is_comparable_type"

\* C30: a value is comparable exactly when it is None, of a whitelisted
\* kind, a trackable object, a list, tuple or set whose every element is
\* comparable or a dict whose every key and value is comparable; every
\* other value is not comparable.
C30_ComparableAsStated ==
    Judged => (last.val <=> ComparableWhere(Trackables, argument))

\* C30, amended: the same with an instance of any pydantic model, with or
\* without the mixin, in the place of the trackable object.
C30_ComparableWithAnyModel ==
    Judged => (last.val <=> ComparableWhere(Models, argument))

\* C30 witness: a list holding a dict whose value is bytes was judged not
\* comparable
C30_Witness ==
    /\ Judged
    /\ argument = ListV(<<IntV(1), DictV(<<Entry(None, BytesV("x"))>>)>>)
    /\ ~last.val

---------------------------------------------------------------------------
(* C31 *)

\* the call handed a value that validation turned into another one and
\* stored in a field
Coerced ==
    /\ FieldWritten
    /\ validate_assignment(Self.cls)
    /\ Self.dict[Name] # last.val

\* C31: a write is judged on the value read back after storage, not on the
\* input: where validation turns the input into a value equal to the prior
\* value the write is suppressed, where it turns it into a different value
\* the write is recorded, with the prior value as original where the field
\* had none.
C31_DecidesOnStoredValue ==
    Coerced =>
        IF Self.dict[Name] = SelfBefore.dict[Name]
        THEN SameTracking(Self, SelfBefore)
        ELSE /\ Name \in Self.model_self_changed_fields
             /\ Name \notin DOMAIN SelfBefore.model_original =>
                    Self.model_original[Name] = SelfBefore.dict[Name]

\* C31 witness: an unchanged instance holding 1 was assigned the text "1",
\* holds 1 and is unchanged
C31_Witness ==
    /\ Coerced
    /\ last.val = StrV("1")
    /\ SelfBefore.dict[Name] = IntV(1)
    /\ Self.dict[Name] = IntV(1)
    /\ ~model_has_changed(heap, last.obj)

---------------------------------------------------------------------------
(* C32 *)

\* the call was made on the instance that parent P holds as its field s,
\* and P has no changed field and no marker of its own
CalledOnChildOf(P, s) ==
    /\ last.op # ""
    /\ last.raised = ""
    /\ P \in DOMAIN last.pre
    /\ P # last.obj
    /\ s \in DOMAIN heap[P].dict
    /\ heap[P].dict[s] = Ref(last.obj)
    /\ heap[P].model_self_changed_fields = {}
    /\ heap[P].model_changed_markers = {}

\* C32: the queries of a parent are computed from the live state of its
\* children on every call: after a call that leaves the child changed the
\* parent reports the field holding it, and after a reset of the child the
\* parent reports no change and empty sets, nothing having been called on
\* the parent.
C32_ParentFollowsChild ==
    \A P \in DOMAIN heap : \A s \in FieldSet(heap[P].cls) :
        CalledOnChildOf(P, s) =>
            /\ model_has_changed(heap, last.obj) =>
                /\ model_has_changed(heap, P)
                /\ s \in model_changed_fields(heap, P)
                /\ s \in model_changed_fields_recursive(heap, P).value
            /\ last.op = "model_reset_changed" =>
                /\ ~model_has_changed(heap, P)
                /\ model_changed_fields(heap, P) = {}
                /\ model_changed_fields_recursive(heap, P).value = {}

\* C32 witness: the child of a parent that reported a change through it
\* was reset, and the parent reports none
C32_Witness ==
    \E P \in DOMAIN heap : \E s \in FieldSet(heap[P].cls) :
        /\ CalledOnChildOf(P, s)
        /\ last.op = "model_reset_changed"
        /\ model_has_changed(last.pre, P)
        /\ s \in model_changed_fields(last.pre, P)
        /\ ~model_has_changed(heap, P)

---------------------------------------------------------------------------
(* C33 *)

\* field f of instance P holds a trackable instance that reports a change
HoldsChangedDirectly(P, f) ==
    /\ f \in FieldSet(heap[P].cls) \cap DOMAIN heap[P].dict
    /\ IsMixinInstance(heap, heap[P].dict[f])
    /\ model_has_changed(heap, heap[P].dict[f].id)

\* C33: every declared field whose value is a trackable instance with
\* model_has_changed true is in model_changed_fields, whatever the field is
\* annotated with.
C33_DirectChildIsReported ==
    \A P \in Mixins(heap) : \A f \in FieldSet(heap[P].cls) :
        HoldsChangedDirectly(P, f) => f \in model_changed_fields(heap, P)

\* C33 witness: a field annotated int holds a changed instance and is
\* reported by a parent that recorded nothing itself
C33_Witness ==
    \E P \in Mixins(heap) : \E f \in FieldSet(heap[P].cls) :
        /\ HoldsChangedDirectly(P, f)
        /\ ~is_pydantic_change_detect_annotation(annotation(heap[P].cls, f))
        /\ heap[P].model_self_changed_fields = {}
        /\ f \in model_changed_fields(heap, P)

---------------------------------------------------------------------------
(* C34 *)

\* the elements of field sub of the parent with their path segments, the
\* instance at position i and what the parent's recursive query returns
ElementsOf(P) == InnerIndexed(heap[P].dict["sub"])

ElementAt(P, i) == ElementsOf(P)[i].val.id

PathAt(P, i) == "sub." \o ElementsOf(P)[i].index

Recursive(P) == model_changed_fields_recursive(heap, P).value

\* what the recursive query of an element can hold
Suffixes == {"id", "sub", "sub.id"}

\* the entries a changed element at position i brings
Brought(P, i) ==
    {PathAt(P, i)}
        \cup {PathAt(P, i) \o "." \o p : p \in Recursive(ElementAt(P, i))}

ChangedAt(P) == {i \in DOMAIN ElementsOf(P) : model_has_changed(heap, ElementAt(P, i))}

\* C34: for a field holding a list, tuple or dict of trackable children the
\* recursive query has "f.<i>" and "f.<i>.<p>", p in the child's own
\* recursive result, for every changed child at i, has no entry "f.<j>" or
\* "f.<j>.<p>" for an unchanged child at j, and model_changed_fields has f
\* as soon as one child has changed.
C34_ElementPathsAsStated ==
    LET P == ElementsParent IN
    /\ \A i \in ChangedAt(P) : Brought(P, i) \subseteq Recursive(P)
    /\ \A j \in DOMAIN ElementsOf(P) \ ChangedAt(P) :
            /\ PathAt(P, j) \notin Recursive(P)
            /\ \A p \in Suffixes : (PathAt(P, j) \o "." \o p) \notin Recursive(P)
    /\ ChangedAt(P) # {} => "sub" \in model_changed_fields(heap, P)

\* C34, amended: the entries of the recursive query below f are exactly the
\* entries "f.<i>" and "f.<i>.<p>" of the changed children, f itself is in
\* both queries as soon as one child has changed, and without a changed
\* child and a change of its own the parent reports nothing.
C34_ElementPathsAreThoseOfChanged ==
    LET P == ElementsParent IN
    /\ Recursive(P) \ {"sub"} = UNION {Brought(P, i) : i \in ChangedAt(P)}
    /\ ChangedAt(P) # {} =>
            /\ "sub" \in model_changed_fields(heap, P)
            /\ "sub" \in Recursive(P)
    /\ (ChangedAt(P) = {} /\ heap[P].model_self_changed_fields = {}) =>
            /\ Recursive(P) = {}
            /\ model_changed_fields(heap, P) = {}

\* C34 witness: both elements have changed, the first through the child
\* it holds, and the parent reports the paths of both
C34_Witness ==
    LET P == ElementsParent IN
    /\ last.op = "setattr"
    /\ ChangedAt(P) = {1, 2}
    /\ Recursive(P) = {"sub", "sub.0", "sub.0.sub", "sub.0.sub.id", "sub.1", "sub.1.id"}

---------------------------------------------------------------------------
(* C35 *)

\* no instance had recorded a field write when the call was made
NothingWritten == \A o \in DOMAIN last.pre : last.pre[o].model_self_changed_fields = {}

\* the call set a marker on the instance that parent P, with nothing of its
\* own recorded, holds in sub directly or as the only element of a list,
\* tuple or dict the annotation of sub covers
ChildMarked(P) ==
    /\ last.op = "model_mark_changed"
    /\ P # last.obj
    /\ P \in Mixins(heap)
    /\ "sub" \in DOMAIN heap[P].dict
    /\ \/ heap[P].dict["sub"] = Ref(last.obj)
       \/ /\ SingleChild(heap[P].dict["sub"], last.obj)
          /\ Classified(P, "sub")
    /\ IsClean(last.pre[P])
    /\ NothingWritten

\* what the recursive query of the parent is to hold then
MarkedPaths(v) ==
    IF v.k = "ref" THEN {"sub"} ELSE {"sub", "sub." \o SingleIndex(v)}

\* C35: a marker set on a nested child, with no field written anywhere,
\* makes model_has_changed of the child and of the parent true and puts the
\* holding field in the parent's model_changed_fields; the parent's
\* model_changed_fields_recursive holds the field, and the element path for
\* a list, tuple or dict, and nothing below the child; the parent's own
\* model_self_changed_fields and model_changed_markers stay empty.
C35_ChildMarkerShowsInParent ==
    \A P \in DOMAIN heap :
        ChildMarked(P) =>
            /\ model_has_changed(heap, last.obj)
            /\ model_has_changed(heap, P)
            /\ model_changed_fields(heap, P) = {"sub"}
            /\ model_changed_fields_recursive(heap, P)
                    = [raised |-> FALSE, value |-> MarkedPaths(heap[P].dict["sub"])]
            /\ heap[P].model_self_changed_fields = {}
            /\ heap[P].model_changed_markers = {}

\* C35 witness: the only element of a parent's dict was marked and the
\* parent, unchanged before, reports sub and sub.k
C35_Witness ==
    \E P \in DOMAIN heap :
        /\ ChildMarked(P)
        /\ heap[P].dict["sub"].k = "dict"
        /\ ~model_has_changed(last.pre, P)
        /\ model_changed_fields_recursive(heap, P).value = {"sub", "sub.k"}

---------------------------------------------------------------------------
(* C36 *)

\* the keys of model_original are the names in model_self_changed_fields
InStep(self) == DOMAIN self.model_original = self.model_self_changed_fields

\* C36: in every state reached from validated construction by writes to
\* declared fields, model_set_changed, marking and unmarking, resets,
\* copies and a pickle round trip, the key set of model_original equals
\* model_self_changed_fields, in every instance.
C36_OriginalsMatchChangedFields ==
    \A o \in Mixins(heap) : InStep(heap[o])

\* C36 witness: an instance with a recorded change was restored from its
\* pickle, and the restored instance has the field in both collections
C36_Witness ==
    /\ last.op = "loads"
    /\ heap[last.obj].model_self_changed_fields # {}
    /\ last.val.id # last.obj
    /\ heap[last.val.id].model_self_changed_fields = heap[last.obj].model_self_changed_fields
    /\ InStep(heap[last.val.id])

---------------------------------------------------------------------------
(* C37 *)

\* the entries without a dot: the field names, every other entry being a
\* path below one
FieldNames == UNION {FieldSet(cls) : cls \in MixinClasses}

Undotted(entries) == entries \cap FieldNames

\* C37: on every instance, instances built by model_construct with some
\* declared fields absent included, model_changed_fields_recursive returns
\* whenever model_changed_fields does, and its entries without a dot are
\* exactly the members of model_changed_fields.
C37_QueriesAgree ==
    \A o \in Mixins(heap) :
        /\ ~model_changed_fields_recursive(heap, o).raised
        /\ Undotted(model_changed_fields_recursive(heap, o).value)
                = model_changed_fields(heap, o)

---------------------------------------------------------------------------
(* C38 *)

\* C38: an assignment to a declared field never takes model_has_changed of
\* the instance from true to false, an assignment that replaces a nested
\* child included.
C38_WriteKeepsChanged ==
    (FieldWritten /\ model_has_changed(last.pre, last.obj)) =>
        model_has_changed(heap, last.obj)

---------------------------------------------------------------------------
(* C39 *)

\* a call of one of the three queries is pending or has returned
Querying == last.op \in QueryOps

\* one of the four operations has been called
Walking == last.op \in WalkOps

\* the call and every call it made have returned
Walked == Walking /\ argument = <<>>

\* C39: on a finite acyclic nesting of instances (held directly, in lists,
\* tuples or dicts, over several levels) a call of model_has_changed,
\* model_changed_fields, model_changed_fields_recursive or
\* model_restore_original returns, and from the call of one of the three
\* queries on every instance, the one asked and the ones nested in it, keeps
\* its field values and its three tracking collections.
C39_WalksReturnAndQueriesOnlyRead ==
    /\ [](Querying => heap = last.pre)
    /\ (Walking ~> Walked)

\* model_changed_fields_recursive has returned on a parent that holds, in a
\* list, tuple or dict, an instance whose own child was changed
C39_Witness ==
    /\ Walked
    /\ last.op = "model_changed_fields_recursive"
    /\ last.obj = ElementsParent
    /\ Ref(3) \in Range(InnerValues(heap[ElementsParent].dict["sub"]))
    /\ heap[3].dict["sub"] = Ref(1)
    /\ heap[1].model_self_changed_fields # {}
    /\ heap = last.pre

====
